---------------------------- MODULE Spec2Model ----------------------------
(***************************************************************************)
(* A model of the PathTracer core: the Intersection record and its two     *)
(* folding operators (utils.hpp), the AABB union (object.cpp/object.hpp),  *)
(* the BVH build and traversal and the linear ObjectVector                 *)
(* (object_container.cpp), and the row-parallel pixel loop Scene::Render   *)
(* (scene.cpp).                                                            *)
(*                                                                         *)
(* Each part is a state machine of its own over its own variables; the     *)
(* other parts' variables stay parked at their initial values.  Doubles    *)
(* are modelled by integers extended with +infinity, -infinity and NaN,    *)
(* compared and combined as IEEE-754 does where the code can produce them. *)
(***************************************************************************)
EXTENDS Integers, Sequences, FiniteSets, TLC

VARIABLES
    \* ---- Intersection algebra (utils.hpp) ----
    ia, ib, ic,   \* three Intersection records (operands)
    ip,           \* the parameter t each operand's constructor was called with
    ires,         \* result of the last operator| evaluation
    iless,        \* result of the last operator< evaluation
    iop           \* which operation ran last

interVars == <<ia, ib, ic, ip, ires, iless, iop>>

VARIABLES
    \* ---- AABB union (object.cpp) ----
    ba, bb, bc,   \* three boxes (operands), each a pair of corner points
    bres,         \* result of the last operator|| evaluation
    bop           \* which unions have been taken: "none", "ab", "abc"

boxVars == <<ba, bb, bc, bres, bop>>

VARIABLES
    \* ---- containers (object_container.cpp) ----
    objs,         \* the primitives handed to the constructors, in input order
    bvec,         \* BVH::BVH's temporary vector `objects`, as indices into objs
    bnodes,       \* the BVH nodes allocated so far; node 1 is the root
    bstack,       \* the call stack of BVH::Build, innermost call last
    bstate,       \* "building", "built", "overflow" or "queried"
    bray,         \* the ray of the last query
    bhit,         \* what BVH::Intersect returned for it
    lhit          \* what ObjectVector::Intersect returned for it

bvhVars == <<objs, bvec, bnodes, bstack, bstate, bray, bhit, lhit>>

VARIABLES
    \* ---- Scene::Render (scene.cpp) ----
    rcfg,             \* the call: image height and width, nb_samples,
                      \* anti_aliasing, progress_bar
    nextRow,          \* next row the dynamic schedule hands to a worker
    thr,              \* per worker thread: position in the loop body, i, j, k
    image,            \* per slot of image_: the writes it received
    oob,              \* an image_.at() was out of range
    computed_pixels,  \* the shared progress counter
    shown,            \* the arguments show_progress was called with
    lock,             \* the thread inside the omp critical section, or 0
    scene,            \* camera_, objects_, lights_, gamma_ and distrib_
    engine,           \* engine_: "seeded", "advanced" by a draw, or "raced"
                      \* after overlapping draws
    drawing,          \* the threads inside distrib_(engine_)
    rstate            \* "running" or "returned"

renderVars == <<rcfg, scene, nextRow, thr, image, oob, computed_pixels, shown,
               lock, engine, drawing, rstate>>

VARIABLES
    \* ---- Sphere::Intersect (object.cpp) ----
    ssphere,      \* the sphere
    sray,         \* the ray
    shit,         \* what Sphere::Intersect returned
    sop           \* "none" or "hit"

sphereVars == <<ssphere, sray, shit, sop>>

VARIABLES
    \* ---- the Fresnel coefficient (scene.cpp) ----
    fin,          \* dot_prod (in units of 1 / CosUnit), n_in, n_out
    fcoef,        \* coef_reflection as <<numerator, denominator>>
    fop           \* "none" or "computed"

fresnelVars == <<fin, fcoef, fop>>

VARIABLES
    \* ---- one pixel of Render and its GetColor evaluations (scene.cpp) ----
    ccfg,         \* nb_recursions, nb_samples, anti_aliasing, and the scene:
                  \* whether it has primitives, its number of lights
    cstack,       \* the nested GetColor calls, innermost last
    cret,         \* what the GetColor call that returned last did
    ck,           \* k, the index of the jittered ray
    cacc,         \* color_pixel: "zero" for (0,0,0), "any" otherwise
    cpixel,       \* the three bytes stored for the pixel
    cprimary,     \* the primary rays launched for the pixel, in order
    ccalls,       \* GetColor calls made for the current primary ray
    cstate        \* "start", "running", "between", "stored" or "overflow"

colorVars ==
    <<ccfg, cstack, cret, ck, cacc, cpixel, cprimary, ccalls, cstate>>

VARIABLES
    \* ---- GetBRDFColor and GetTransmissionReflexionColor (scene.cpp) ----
    tin,          \* the helper called and its arguments
    tset,         \* is_ray_refracted, new_index and coef_reflection
    tkids,        \* the GetColor calls made so far, in order
    ti,           \* i, the index of the sample
    tdiv,         \* what the sum was divided by, 0 when it was not divided
    tpc           \* "start", "loop" or "returned"

helperVars == <<tin, tset, tkids, ti, tdiv, tpc>>

VARIABLES
    \* ---- Scene::LightIntensity (scene.cpp) ----
    lin,          \* opacity, fraction_diffuse_brdf, the material's specular
                  \* weight and exponent, and per light whether it is visible
    lterms,       \* per light handled: the terms added to final_color
    learly,       \* the early return was taken
    lpc           \* "start", "loop" or "returned"

lightVars == <<lin, lterms, learly, lpc>>

VARIABLES
    \* ---- fraction_diffusion of GetColor (scene.cpp) ----
    din,          \* opacity and fraction_diffuse_brdf, as doubles
    dden,         \* the denominator 1 - opacity * (1 - fraction_diffuse_brdf)
    dpc           \* "start", "skipped" or "computed"

diffusionVars == <<din, dden, dpc>>

otherVars ==
    <<sphereVars, fresnelVars, colorVars, helperVars, lightVars,
      diffusionVars>>

vars == <<interVars, boxVars, bvhVars, renderVars, otherVars>>

\* what each part leaves alone
notInter == <<boxVars, bvhVars, renderVars, otherVars>>
notBox == <<interVars, bvhVars, renderVars, otherVars>>
notBvh == <<interVars, boxVars, renderVars, otherVars>>
notRender == <<interVars, boxVars, bvhVars, otherVars>>
notSphere ==
    <<interVars, boxVars, bvhVars, renderVars, fresnelVars, colorVars,
      helperVars, lightVars, diffusionVars>>
notFresnel ==
    <<interVars, boxVars, bvhVars, renderVars, sphereVars, colorVars,
      helperVars, lightVars, diffusionVars>>
notColor ==
    <<interVars, boxVars, bvhVars, renderVars, sphereVars,
      fresnelVars, helperVars, lightVars, diffusionVars>>
notHelper ==
    <<interVars, boxVars, bvhVars, renderVars, sphereVars,
      fresnelVars, colorVars, lightVars, diffusionVars>>
notLight ==
    <<interVars, boxVars, bvhVars, renderVars, sphereVars,
      fresnelVars, colorVars, helperVars, diffusionVars>>
notDiffusion ==
    <<interVars, boxVars, bvhVars, renderVars, sphereVars,
      fresnelVars, colorVars, helperVars, lightVars>>

-----------------------------------------------------------------------------
(* Extended numbers: finite integers, +Inf, -Inf and NaN.                   *)

\* std::numeric_limits<double>::infinity(), larger than every finite value used
Inf == 1000

\* the quiet NaN produced by 0 * infinity
NaN == Inf + Inf

\* a < b on doubles: false as soon as one side is NaN
XLt(a, b) == a # NaN /\ b # NaN /\ a < b

\* std::min(a, b) == (b < a) ? b : a
StdMin(a, b) == IF XLt(b, a) THEN b ELSE a

\* std::max(a, b) == (a < b) ? b : a
StdMax(a, b) == IF XLt(a, b) THEN b ELSE a

-----------------------------------------------------------------------------
(* Intersection (utils.hpp)                                                 *)

\* Vector{} : the origin (0, 0, 0)
ZeroVector == <<0, 0, 0>>

\* Intersection(object): the empty Intersection
Intersection1(object) ==
    [exists |-> FALSE, t |-> 0, out |-> FALSE, bary |-> ZeroVector,
     obj |-> object]

\* a constructor that counts t = 0 as a hit
MutIntersection4(t, out, barycentric, object) ==
    [exists |-> ~XLt(t, 0), t |-> StdMax(t, 0), out |-> out,
     bary |-> barycentric, obj |-> object]

\* Intersection(t, out, barycentric, object)
Intersection4(t, out, barycentric, object) ==
    [exists |-> XLt(0, t), t |-> StdMax(t, 0), out |-> out,
     bary |-> barycentric, obj |-> object]

\* Intersection(t, out, object): barycentric_ is default-constructed
Intersection3(t, out, object) ==
    [exists |-> XLt(0, t), t |-> StdMax(t, 0), out |-> out,
     bary |-> ZeroVector, obj |-> object]

IsEmpty(i) == ~i.exists

\* the record operator| copies into its result's constructor
OrPick(a, b) ==
    IF IsEmpty(a) THEN b
    ELSE IF IsEmpty(b) THEN a
    ELSE IF XLt(a.t, b.t) THEN a
    ELSE b

\* operator| whose first branch keeps its own front-facing flag
MutOperatorOr(a, b) ==
    IF IsEmpty(a) THEN Intersection4(b.t, a.out, b.bary, b.obj)
    ELSE IF IsEmpty(b) THEN Intersection4(a.t, a.out, a.bary, a.obj)
    ELSE IF XLt(a.t, b.t) THEN Intersection4(a.t, a.out, a.bary, a.obj)
    ELSE Intersection4(b.t, b.out, b.bary, b.obj)

\* Intersection::operator|
OperatorOr(a, b) ==
    IF IsEmpty(a) THEN Intersection4(b.t, b.out, b.bary, b.obj)
    ELSE IF IsEmpty(b) THEN Intersection4(a.t, a.out, a.bary, a.obj)
    ELSE IF XLt(a.t, b.t) THEN Intersection4(a.t, a.out, a.bary, a.obj)
    ELSE Intersection4(b.t, b.out, b.bary, b.obj)

\* operator< comparing with <= in its last branch
MutOperatorLess(a, b) ==
    IF IsEmpty(a) THEN FALSE
    ELSE IF IsEmpty(b) THEN TRUE
    ELSE ~XLt(b.t, a.t)

\* Intersection::operator<
OperatorLess(a, b) ==
    IF IsEmpty(a) THEN FALSE
    ELSE IF IsEmpty(b) THEN TRUE
    ELSE XLt(a.t, b.t)

-----------------------------------------------------------------------------
(* AABB (object.hpp, object.cpp): two extremal points, in any order.        *)

\* AABB(p1, p2)
AABB(p1, p2) == [p1 |-> p1, p2 |-> p2]

\* AABB::XMinMax
XMinMax(b) ==
    IF XLt(b.p1[1], b.p2[1]) THEN <<b.p1[1], b.p2[1]>>
    ELSE <<b.p2[1], b.p1[1]>>

\* YMinMax reading the x coordinates
MutYMinMax(b) ==
    IF XLt(b.p1[1], b.p2[1]) THEN <<b.p1[1], b.p2[1]>>
    ELSE <<b.p2[1], b.p1[1]>>

\* AABB::YMinMax
YMinMax(b) ==
    IF XLt(b.p1[2], b.p2[2]) THEN <<b.p1[2], b.p2[2]>>
    ELSE <<b.p2[2], b.p1[2]>>

\* AABB::ZMinMax
ZMinMax(b) ==
    IF XLt(b.p1[3], b.p2[3]) THEN <<b.p1[3], b.p2[3]>>
    ELSE <<b.p2[3], b.p1[3]>>

\* AABB::operator||
BoxUnion(a, b) ==
    AABB(<<StdMin(XMinMax(a)[1], XMinMax(b)[1]),
           StdMin(YMinMax(a)[1], YMinMax(b)[1]),
           StdMin(ZMinMax(a)[1], ZMinMax(b)[1])>>,
         <<StdMax(XMinMax(a)[2], XMinMax(b)[2]),
           StdMax(YMinMax(a)[2], YMinMax(b)[2]),
           StdMax(ZMinMax(a)[2], ZMinMax(b)[2])>>)

\* Plane::BoundingBox: the infinite box AABB{-inf, inf}
PlaneBoundingBox == AABB(<<0 - Inf, 0 - Inf, 0 - Inf>>, <<Inf, Inf, Inf>>)

-----------------------------------------------------------------------------
(* Arithmetic on extended numbers, as far as AABB::Intersect needs it.      *)

\* a - b for a finite b
XSub(a, b) ==
    IF a = NaN THEN NaN
    ELSE IF a = Inf THEN Inf
    ELSE IF a = 0 - Inf THEN 0 - Inf
    ELSE a - b

\* a + b
XAdd(a, b) ==
    IF a = NaN \/ b = NaN THEN NaN
    ELSE IF a = Inf THEN (IF b = 0 - Inf THEN NaN ELSE Inf)
    ELSE IF a = 0 - Inf THEN (IF b = Inf THEN NaN ELSE 0 - Inf)
    ELSE IF b = Inf \/ b = 0 - Inf THEN b
    ELSE a + b

\* a / 2
XHalf(a) ==
    IF a = NaN \/ a = Inf \/ a = 0 - Inf THEN a ELSE a \div 2

\* 1 / d for a component d of a unit axis direction: 1 / 0 is +infinity
XInv(d) == IF d = 0 THEN Inf ELSE d

\* a * k for k one of 1, -1, +infinity: 0 * infinity is NaN
XMul(a, k) ==
    IF a = NaN THEN NaN
    ELSE IF k = Inf THEN
        (IF a > 0 THEN Inf ELSE IF a < 0 THEN 0 - Inf ELSE NaN)
    ELSE IF a = Inf \/ a = 0 - Inf THEN (IF k = 1 THEN a ELSE 0 - a)
    ELSE a * k

\* sqrt of a perfect square
Sqrt(n) == CHOOSE k \in 0..n : k * k = n

-----------------------------------------------------------------------------
(* Vectors, rays and primitives (utils.hpp, object.hpp, object.cpp).        *)

\* Vector operator- , operator+ , operator| (dot product), NormSquared
VSub(u, v) == <<u[1] - v[1], u[2] - v[2], u[3] - v[3]>>
VAdd(u, v) == <<u[1] + v[1], u[2] + v[2], u[3] + v[3]>>
Dot(u, v) == u[1] * v[1] + u[2] * v[2] + u[3] * v[3]
NormSquared(u) == Dot(u, u)

\* Ray(origin, direction): the directions used are unit vectors already
Ray(origin, direction) == [o |-> origin, d |-> direction]

\* Sphere(radius, center) and Plane(point, normal)
Sphere(radius, center) ==
    [kind |-> "sphere", c |-> center, r |-> radius, n |-> ZeroVector]
Plane(point, normal) ==
    [kind |-> "plane", c |-> point, r |-> 0, n |-> normal]

\* the back-reference of a record that refers to no primitive of the scene
\* (a bounding box, the container's empty_object_, a default Object)
NoRef == 0

\* Sphere::Intersect with the two roots merged the other way round
MutSphereIntersect(sp, ray, self) ==
    LET dot_prod == Dot(ray.d, VSub(ray.o, sp.c))
        delta == 4 * (dot_prod * dot_prod - NormSquared(VSub(sp.c, ray.o))
                        + sp.r * sp.r)
    IN  IF delta < 0 THEN Intersection1(self)
        ELSE LET i1 == Intersection3(
                        ((0 - 2) * dot_prod + Sqrt(delta)) \div 2, FALSE, self)
                 i2 == Intersection3(
                        ((0 - 2) * dot_prod - Sqrt(delta)) \div 2, TRUE, self)
             IN  OperatorOr(i2, i1)

\* Sphere::Intersect; self is the primitive's identity (*this)
SphereIntersect(sp, ray, self) ==
    LET dot_prod == Dot(ray.d, VSub(ray.o, sp.c))
        delta == 4 * (dot_prod * dot_prod - NormSquared(VSub(sp.c, ray.o))
                        + sp.r * sp.r)
    IN  IF delta < 0 THEN Intersection1(self)
        ELSE LET i1 == Intersection3(
                        ((0 - 2) * dot_prod + Sqrt(delta)) \div 2, FALSE, self)
                 i2 == Intersection3(
                        ((0 - 2) * dot_prod - Sqrt(delta)) \div 2, TRUE, self)
             IN  OperatorOr(i1, i2)

\* Plane::Intersect, for a normal along an axis (the quotient is exact)
PlaneIntersect(pl, ray, self) ==
    LET dot_prod == Dot(ray.d, pl.n)
    IN  IF dot_prod = 0 THEN Intersection1(self)
        ELSE Intersection3(
                (0 - Dot(VSub(ray.o, pl.c), pl.n)) \div dot_prod,
                Dot(pl.n, ray.d) < 0, self)

\* Sphere::BoundingBox
SphereBoundingBox(sp) ==
    AABB(VAdd(sp.c, <<sp.r, sp.r, sp.r>>), VSub(sp.c, <<sp.r, sp.r, sp.r>>))

\* AABB::Centroid
Centroid(b) ==
    <<XHalf(XAdd(b.p1[1], b.p2[1])), XHalf(XAdd(b.p1[2], b.p2[2])),
      XHalf(XAdd(b.p1[3], b.p2[3]))>>

\* AABB::Intersect
AABBIntersect(b, ray) ==
    LET inv == <<XInv(ray.d[1]), XInv(ray.d[2]), XInv(ray.d[3])>>
        t_x1 == XMul(XSub(b.p1[1], ray.o[1]), inv[1])
        t_x2 == XMul(XSub(b.p2[1], ray.o[1]), inv[1])
        t_y1 == XMul(XSub(b.p1[2], ray.o[2]), inv[2])
        t_y2 == XMul(XSub(b.p2[2], ray.o[2]), inv[2])
        t_z1 == XMul(XSub(b.p1[3], ray.o[3]), inv[3])
        t_z2 == XMul(XSub(b.p2[3], ray.o[3]), inv[3])
        t_min == StdMax(StdMax(StdMin(t_x1, t_x2), StdMin(t_y1, t_y2)),
                        StdMin(t_z1, t_z2))
        t_max == StdMin(StdMin(StdMax(t_x1, t_x2), StdMax(t_y1, t_y2)),
                        StdMax(t_z1, t_z2))
    IN  IF XLt(t_max, t_min) THEN Intersection1(NoRef)
        ELSE OperatorOr(Intersection3(t_min, TRUE, NoRef),
                        Intersection3(t_max, FALSE, NoRef))

\* Object(): the empty / invisible object, a Sphere of radius -1 at the origin
DefaultObject == Sphere(0 - 1, ZeroVector)

\* Object::Intersect: dispatch on the wrapped RawObject
ObjectIntersect(prim, ray, self) ==
    IF prim.kind = "sphere" THEN SphereIntersect(prim, ray, self)
    ELSE PlaneIntersect(prim, ray, self)

\* Object::BoundingBox
ObjectBoundingBox(prim) ==
    IF prim.kind = "sphere" THEN SphereBoundingBox(prim)
    ELSE PlaneBoundingBox

-----------------------------------------------------------------------------
(* The Intersection algebra as a state machine: records are built by the    *)
(* constructors, merged and compared.                                       *)

\* largest ray parameter handed to a constructor (the smallest is -1)
MaxT == 2
\* number of distinct objects an Intersection can refer to
MaxRef == 2

Params == (0 - 1)..MaxT
Refs == 1..MaxRef
BaryVals == {ZeroVector, <<1, 1, 1>>}

\* the records the three constructors build, each with the parameter t it was
\* built from (the one-argument constructor takes none: 0 stands for it)
Built ==
    {<<Intersection1(o), 0>> : o \in Refs}
    \cup {<<Intersection3(t, out, o), t>> :
            t \in Params, out \in BOOLEAN, o \in Refs}
    \cup {<<Intersection4(t, out, b, o), t>> :
            t \in Params, out \in BOOLEAN, b \in {<<1, 1, 1>>}, o \in Refs}

InterParked ==
    /\ ia = Intersection1(1)
    /\ ib = Intersection1(1)
    /\ ic = Intersection1(1)
    /\ ip = <<0, 0, 0>>
    /\ ires = Intersection1(1)
    /\ iless = FALSE
    /\ iop = "none"

InterInit ==
    /\ \E x \in Built, y \in Built, z \in Built :
        /\ ia = x[1]
        /\ ib = y[1]
        /\ ic = z[1]
        /\ ip = <<x[2], y[2], z[2]>>
    /\ ires = Intersection1(1)
    /\ iless = FALSE
    /\ iop = "none"

\* ires = ia | ib
MergeOp ==
    /\ iop \in {"none", "fold"}
    /\ ires' = OperatorOr(ia, ib)
    /\ iop' = "merge"
    /\ UNCHANGED <<ia, ib, ic, ip, iless>>
    /\ UNCHANGED notInter

\* ia = ia | ib, the fold step of ObjectVector::Intersect, after which the
\* next operand comes up; the result is built by the constructor from the
\* stored distance of the operand it copies
FoldOp ==
    /\ iop \in {"none", "fold"}
    /\ ia' = OperatorOr(ia, ib)
    /\ ib' = ic
    /\ ic' = ib
    /\ ip' = <<OrPick(ia, ib).t, ip[3], ip[2]>>
    /\ iop' = "fold"
    /\ UNCHANGED <<ires, iless>>
    /\ UNCHANGED notInter

\* iless = ia < ib
LessOp ==
    /\ iop \in {"none", "fold"}
    /\ iless' = OperatorLess(ia, ib)
    /\ iop' = "less"
    /\ UNCHANGED <<ia, ib, ic, ip, ires>>
    /\ UNCHANGED notInter

InterNext ==
    \/ MergeOp
    \/ FoldOp
    \/ LessOp

-----------------------------------------------------------------------------
(* Claims about the Intersection algebra, under SpecInter                   *)

Operands == {ia, ib, ic}

\* C3: operator| of a and b is empty if both are empty, the non-empty operand
\* if exactly one is empty, otherwise the operand with the smaller t, and on
\* a.t = b.t the left operand a with its flag, barycentrics and back-reference.
C3_MergeTieKeepsLeft ==
    iop = "merge" =>
        IF ~ia.exists /\ ~ib.exists THEN ~ires.exists
        ELSE IF ~ia.exists THEN ires = ib
        ELSE IF ~ib.exists THEN ires = ia
        ELSE ires = (IF ia.t <= ib.t THEN ia ELSE ib)

\* C4: a < b is true iff a is present and (b is empty or a.t < b.t); an empty
\* record is less than nothing, a present one is less than every empty one,
\* and the relation is a strict weak order.
C4_LessThanOrder ==
    iop = "less" =>
    /\ iless <=> (ia.exists /\ (~ib.exists \/ ia.t < ib.t))
    /\ \A x \in Operands, y \in Operands :
        /\ ~x.exists => ~OperatorLess(x, y)
        /\ (x.exists /\ ~y.exists) => OperatorLess(x, y)
        /\ ~OperatorLess(x, x)
        /\ \A z \in Operands :
            /\ (OperatorLess(x, y) /\ OperatorLess(y, z))
                => OperatorLess(x, z)
            /\ (/\ ~OperatorLess(x, y) /\ ~OperatorLess(y, x)
                /\ ~OperatorLess(y, z) /\ ~OperatorLess(z, y))
                => (~OperatorLess(x, z) /\ ~OperatorLess(z, x))

\* a comparison of two present records that came out true, beside an empty one
C4_Witness ==
    /\ iop = "less"
    /\ iless
    /\ ia.exists /\ ib.exists /\ ~ic.exists

Empties == {x \in Operands : ~x.exists} \cup {Intersection1(o) : o \in Refs}

\* C6: operator| is associative on every field (presence, t, front flag,
\* barycentrics, back-reference), ties included, and the empty record is a
\* two-sided identity: empty | a is a, a | empty is a when a is present and
\* is the empty record when a is.
C6_MergeAssociative ==
    iop = "merge" =>
    /\ OperatorOr(OperatorOr(ia, ib), ic) = OperatorOr(ia, OperatorOr(ib, ic))
    /\ OperatorOr(ires, ic) = OperatorOr(ia, OperatorOr(ib, ic))
    /\ \A e \in Empties, x \in Operands :
        /\ OperatorOr(e, x) = x
        /\ x.exists => OperatorOr(x, e) = x
        /\ ~x.exists => ~OperatorOr(x, e).exists

\* three present records at the same distance that differ in flag and object
C6_Witness ==
    /\ iop = "merge"
    /\ ia.exists /\ ib.exists /\ ic.exists
    /\ ia.t = ib.t /\ ib.t = ic.t
    /\ ia.obj # ib.obj /\ ib.out # ic.out

-----------------------------------------------------------------------------
(* The AABB union as a state machine: three boxes are drawn, a || b is      *)
(* taken, then (a || b) || c.                                               *)

\* largest coordinate of a corner point
MaxCoord == 1

\* the corner points: x free, y mirrored, z at either end, so that the three
\* axes of a box differ and its corners come in every order
Corners ==
    {<<x, MaxCoord - x, z>> : x \in 0..MaxCoord, z \in {0, MaxCoord}}

Boxes == {AABB(p, q) : p \in Corners, q \in Corners} \cup {PlaneBoundingBox}

BoxParked ==
    /\ ba = PlaneBoundingBox
    /\ bb = PlaneBoundingBox
    /\ bc = PlaneBoundingBox
    /\ bres = PlaneBoundingBox
    /\ bop = "none"

BoxInit ==
    /\ ba \in Boxes
    /\ bb \in Boxes
    /\ bc \in Boxes
    /\ bres = PlaneBoundingBox
    /\ bop = "none"

\* bres = ba || bb
UnionOp ==
    /\ bop = "none"
    /\ bres' = BoxUnion(ba, bb)
    /\ bop' = "ab"
    /\ UNCHANGED <<ba, bb, bc>>
    /\ UNCHANGED notBox

\* bres = (ba || bb) || bc
UnionAgainOp ==
    /\ bop = "ab"
    /\ bres' = BoxUnion(bres, bc)
    /\ bop' = "abc"
    /\ UNCHANGED <<ba, bb, bc>>
    /\ UNCHANGED notBox

BoxNext ==
    \/ UnionOp
    \/ UnionAgainOp

-----------------------------------------------------------------------------
(* Claims about the AABB union, under SpecBox                               *)

Least(x, y) == IF x <= y THEN x ELSE y
Greatest(x, y) == IF x >= y THEN x ELSE y

\* the extent of a box along axis k, whatever the order of its corners
Extent(b, k) == <<Least(b.p1[k], b.p2[k]), Greatest(b.p1[k], b.p2[k])>>

SameExtent(a, b) == \A k \in 1..3 : Extent(a, k) = Extent(b, k)

\* C7: a || b is the smallest axis-aligned box containing both, whatever the
\* order of each box's corners: per axis its min is min(minA, minB) and its
\* max is max(maxA, maxB); the union is commutative, associative, idempotent.
C7_UnionSmallestBox ==
    /\ bop = "ab" =>
        /\ \A k \in 1..3 :
            /\ bres.p1[k] = Least(Extent(ba, k)[1], Extent(bb, k)[1])
            /\ bres.p2[k] = Greatest(Extent(ba, k)[2], Extent(bb, k)[2])
        /\ bres = BoxUnion(bb, ba)
    /\ bop = "abc" => bres = BoxUnion(ba, BoxUnion(bb, bc))
    /\ SameExtent(BoxUnion(ba, ba), ba)
    /\ bop # "none" => BoxUnion(bres, bres) = bres

\* a union of two different finite boxes, one with its corners in mixed order
C7_Witness ==
    /\ bop = "ab"
    /\ ba.p1[1] > ba.p2[1] /\ ba.p1[2] < ba.p2[2]
    /\ bb.p1[1] < bb.p2[1]
    /\ ~SameExtent(bres, ba) /\ ~SameExtent(bres, bb)

-----------------------------------------------------------------------------
(* The containers (object_container.hpp, object_container.cpp): a BVH is    *)
(* built over a vector of primitives by the recursive BVH::Build, one call  *)
(* per stack frame, and then queried with a ray, as is the ObjectVector     *)
(* over the same primitives.                                                *)

\* largest number of primitives handed to a container
MaxObjs == 3
\* deepest nesting of BVH::Build calls the stack holds
MaxDepth == 4

\* the primitives scenes are made of: unit spheres and two walls, the nearer
\* wall touching the first sphere
Catalog ==
    {Sphere(1, <<3, 0, 0>>), Sphere(1, <<6, 0, 0>>), Sphere(1, <<3, 3, 0>>),
     Plane(<<8, 0, 0>>, <<0 - 1, 0, 0>>), Plane(<<2, 0, 0>>, <<0 - 1, 0, 0>>)}

\* the rays queried: along +x from the origin, tangent to the spheres on the
\* x axis, from inside the first sphere, along +y and -y, and along -x from
\* beyond the plane
Rays ==
    {Ray(<<0, 0, 0>>, <<1, 0, 0>>), Ray(<<0, 1, 0>>, <<1, 0, 0>>),
     Ray(<<3, 0, 0>>, <<1, 0, 0>>), Ray(<<3, 0 - 2, 0>>, <<0, 1, 0>>),
     Ray(<<6, 5, 0>>, <<0, 0 - 1, 0>>), Ray(<<10, 0, 0>>, <<0 - 1, 0, 0>>)}

\* the input vectors: up to MaxObjs different primitives, in any order
Inputs ==
    {v \in UNION {[1..n -> Catalog] : n \in 0..MaxObjs} :
        \A i \in DOMAIN v, j \in DOMAIN v : i # j => v[i] # v[j]}

\* the primitive behind an index into objs; NoRef is a default Object
PrimOf(id) == IF id = NoRef THEN DefaultObject ELSE objs[id]

\* BVH(): both children null, a default bounding box and a default Object
NewNode ==
    [child1 |-> 0, child2 |-> 0, box |-> AABB(ZeroVector, ZeroVector),
     obj |-> NoRef]

\* BVH::IsLeaf
IsLeaf(nd) == ~((nd.child1 # 0) \/ (nd.child2 # 0))

\* BVH::CompareCentroids on the bounding boxes of primitives a and b
CompareCentroids(i, a, b) ==
    IF i \in 0..2
    THEN XLt(Centroid(ObjectBoundingBox(PrimOf(a)))[i + 1],
             Centroid(ObjectBoundingBox(PrimOf(b)))[i + 1])
    ELSE FALSE

\* (last - first) / 2 on iterator differences: truncated towards zero
HalfOf(d) == IF d >= 0 THEN d \div 2 ELSE 0 - ((0 - d) \div 2)

\* std::nth_element(first, half, last, comp) on vector v: every arrangement
\* of [first, last) with no element before half greater than the one at half
\* and none after it smaller.  When comp is no strict weak order on the range
\* (a NaN centroid) the call is undefined: any arrangement.
NthElement(v, first, half, last, coordinate) ==
    IF first >= last THEN {v}
    ELSE
        LET range == first..(last - 1)
            Comp(a, b) == CompareCentroids(coordinate, a, b)
            Equiv(a, b) == ~Comp(a, b) /\ ~Comp(b, a)
            ordered == \A a \in range, b \in range, c \in range :
                (Equiv(v[a], v[b]) /\ Equiv(v[b], v[c])) => Equiv(v[a], v[c])
            arranged == {[i \in DOMAIN v |->
                            IF i \in range THEN v[f[i]] ELSE v[i]] :
                         f \in Permutations(range)}
        IN  IF ~ordered THEN arranged
            ELSE {w \in arranged :
                    /\ \A i \in first..(half - 1) : ~Comp(w[half], w[i])
                    /\ \A j \in (half + 1)..(last - 1) : ~Comp(w[j], w[half])}

BvhParked ==
    /\ objs = <<>>
    /\ bvec = <<>>
    /\ bnodes = <<>>
    /\ bstack = <<>>
    /\ bstate = "parked"
    /\ bray = Ray(ZeroVector, ZeroVector)
    /\ bhit = <<Intersection1(NoRef), NoRef>>
    /\ lhit = <<Intersection1(NoRef), NoRef>>

\* BVH::BVH(first, last): fill the temporary vector and call Build on all of it
BvhInit ==
    /\ objs \in Inputs
    /\ bvec = [i \in 1..Len(objs) |-> i]
    /\ bnodes = <<NewNode>>
    /\ bstack = <<[node |-> 1, first |-> 1, last |-> Len(objs) + 1,
                   half |-> 0, pc |-> "enter"]>>
    /\ bstate = "building"
    /\ bray = Ray(ZeroVector, ZeroVector)
    /\ bhit = <<Intersection1(NoRef), NoRef>>
    /\ lhit = <<Intersection1(NoRef), NoRef>>

Top == bstack[Len(bstack)]
Pop == SubSeq(bstack, 1, Len(bstack) - 1)
SetTop(frame) == [bstack EXCEPT ![Len(bstack)] = frame]

\* the call returns: the constructor is done when the outermost call does
Return(nodes) ==
    /\ bnodes' = nodes
    /\ bstack' = Pop
    /\ bstate' = IF Len(bstack) = 1 THEN "built" ELSE "building"

\* a nested Build call on a fresh child node; the stack may have no room
Call(nodes, frames, child, first, last) ==
    IF Len(frames) >= MaxDepth
    THEN /\ bstate' = "overflow"
         /\ UNCHANGED <<bnodes, bstack>>
    ELSE /\ bnodes' = Append(nodes, NewNode)
         /\ bstack' = Append(frames, [node |-> child, first |-> first,
                                       last |-> last, half |-> 0,
                                       pc |-> "enter"])
         /\ bstate' = "building"

\* Build, last == first + 1: the node becomes a leaf
BuildLeaf ==
    /\ bstate = "building"
    /\ Top.pc = "enter"
    /\ Top.last = Top.first + 1
    /\ Return([bnodes EXCEPT ![Top.node] =
                [@ EXCEPT !.obj = bvec[Top.first],
                          !.box = ObjectBoundingBox(PrimOf(bvec[Top.first]))]])
    /\ UNCHANGED <<objs, bvec, bray, bhit, lhit>>
    /\ UNCHANGED notBvh

\* Build, otherwise: pick a coordinate, move the median to half, build child1
\* on [first, half)
BuildSplit ==
    /\ bstate = "building"
    /\ Top.pc = "enter"
    /\ Top.last # Top.first + 1
    /\ LET half == Top.first + HalfOf(Top.last - Top.first)
           child == Len(bnodes) + 1
       IN  \E coordinate \in 0..2 :
           \E w \in NthElement(bvec, Top.first, half, Top.last, coordinate) :
               /\ bvec' = w
               /\ Call([bnodes EXCEPT ![Top.node].child1 = child],
                       SetTop([Top EXCEPT !.half = half, !.pc = "child1"]),
                       child, Top.first, half)
    /\ UNCHANGED <<objs, bray, bhit, lhit>>
    /\ UNCHANGED notBvh

\* Build, after child1 returned: build child2 on [half + 1, last)
BuildSecond ==
    /\ bstate = "building"
    /\ Top.pc = "child1"
    /\ LET child == Len(bnodes) + 1
       IN  Call([bnodes EXCEPT ![Top.node].child2 = child],
                SetTop([Top EXCEPT !.pc = "child2"]),
                child, Top.half + 1, Top.last)
    /\ UNCHANGED <<objs, bvec, bray, bhit, lhit>>
    /\ UNCHANGED notBvh

\* Build, after child2 returned, with the node's box taken from child1 alone
MutBuildFinish ==
    /\ bstate = "building"
    /\ Top.pc = "child2"
    /\ Return([bnodes EXCEPT ![Top.node].box =
                bnodes[bnodes[Top.node].child1].box])
    /\ UNCHANGED <<objs, bvec, bray, bhit, lhit>>
    /\ UNCHANGED notBvh

\* Build, after child2 returned: the node's box is the union of its children's
BuildFinish ==
    /\ bstate = "building"
    /\ Top.pc = "child2"
    /\ Return([bnodes EXCEPT ![Top.node].box =
                BoxUnion(bnodes[bnodes[Top.node].child1].box,
                         bnodes[bnodes[Top.node].child2].box)])
    /\ UNCHANGED <<objs, bvec, bray, bhit, lhit>>
    /\ UNCHANGED notBvh

\* BVH::Intersect on node n: the Intersection and the Object returned
RECURSIVE BVHIntersect(_, _)
BVHIntersect(n, ray) ==
    LET nd == bnodes[n]
    IN  IF IsLeaf(nd) THEN
            IF ~IsEmpty(AABBIntersect(nd.box, ray))
            THEN <<ObjectIntersect(PrimOf(nd.obj), ray, nd.obj), nd.obj>>
            ELSE <<Intersection1(NoRef), nd.obj>>
        ELSE IF ~IsEmpty(AABBIntersect(nd.box, ray)) THEN
            LET inter_child1 == BVHIntersect(nd.child1, ray)
                inter_aabb_child2 == AABBIntersect(bnodes[nd.child2].box, ray)
            IN  IF OperatorLess(inter_child1[1], inter_aabb_child2)
                THEN inter_child1
                ELSE LET inter_child2 == BVHIntersect(nd.child2, ray)
                     IN  IF OperatorLess(inter_child1[1], inter_child2[1])
                         THEN inter_child1
                         ELSE inter_child2
        ELSE <<Intersection1(NoRef), NoRef>>

\* the loop of ObjectVector::Intersect over objects count..n: the running
\* Intersection and the index tracked beside it
RECURSIVE VectorFold(_, _, _, _)
VectorFold(count, inter, index, ray) ==
    IF count > Len(objs) THEN <<inter, index>>
    ELSE LET previous == inter
             next == OperatorOr(inter,
                                ObjectIntersect(objs[count], ray, count))
         IN  VectorFold(count + 1, next,
                        IF OperatorLess(next, previous) THEN count ELSE index,
                        ray)

\* ObjectVector::Intersect
ObjectVectorIntersect(ray) ==
    LET folded == VectorFold(1, Intersection1(NoRef), NoRef, ray)
    IN  IF IsEmpty(folded[1]) THEN <<folded[1], NoRef>>
        ELSE <<folded[1], folded[2]>>

\* both containers answer the same ray
Query ==
    /\ bstate = "built"
    /\ \E ray \in Rays :
        /\ bray' = ray
        /\ bhit' = BVHIntersect(1, ray)
        /\ lhit' = ObjectVectorIntersect(ray)
    /\ bstate' = "queried"
    /\ UNCHANGED <<objs, bvec, bnodes, bstack>>
    /\ UNCHANGED notBvh

BvhNext ==
    \/ BuildLeaf
    \/ BuildSplit
    \/ BuildSecond
    \/ BuildFinish
    \/ Query

-----------------------------------------------------------------------------
(* Claims about the containers, under SpecBvh                               *)

\* C1: for every set of primitives and every ray, BVH::Intersect returns the
\* same nearest hit (same existence, same distance, same primitive) as the
\* linear ObjectVector::Intersect on the same primitives.
C1_BvhMatchesLinear ==
    bstate = "queried" =>
        /\ bhit[1].exists = lhit[1].exists
        /\ lhit[1].exists => (bhit[1].t = lhit[1].t /\ bhit[2] = lhit[2])

\* the leaves of the built tree
Leaves == {n \in DOMAIN bnodes : IsLeaf(bnodes[n])}

\* C2: the build on n >= 1 primitives produces a tree with exactly n leaves,
\* and every input primitive is stored in exactly one leaf.
C2_EveryPrimitiveInOneLeaf ==
    (bstate \in {"built", "queried"} /\ Len(objs) >= 1) =>
        /\ Cardinality(Leaves) = Len(objs)
        /\ \A p \in 1..Len(objs) :
            Cardinality({n \in Leaves : bnodes[n].obj = p}) = 1

\* box outer contains box inner, whatever the order of their corners
Contains(outer, inner) ==
    \A k \in 1..3 :
        /\ Extent(outer, k)[1] <= Extent(inner, k)[1]
        /\ Extent(inner, k)[2] <= Extent(outer, k)[2]

\* the nodes of the subtree rooted at n
RECURSIVE Subtree(_)
Subtree(n) ==
    IF IsLeaf(bnodes[n]) THEN {n}
    ELSE {n} \cup Subtree(bnodes[n].child1) \cup Subtree(bnodes[n].child2)

\* C16: after construction every node is a leaf (both children null, one
\* primitive and that primitive's bounding box) or is internal with two
\* non-null children and a box equal to the union of theirs; hence its box
\* contains the bounding box of every primitive stored in its subtree.
C16_NodeInvariant ==
    bstate \in {"built", "queried"} =>
        \A n \in DOMAIN bnodes :
            /\ IF bnodes[n].child1 = 0 \/ bnodes[n].child2 = 0
               THEN /\ bnodes[n].child1 = 0 /\ bnodes[n].child2 = 0
                    /\ bnodes[n].obj \in 1..Len(objs)
                    /\ bnodes[n].box = ObjectBoundingBox(objs[bnodes[n].obj])
               ELSE /\ bnodes[n].child1 \in DOMAIN bnodes
                    /\ bnodes[n].child2 \in DOMAIN bnodes
                    /\ bnodes[n].child1 # bnodes[n].child2
                    /\ bnodes[n].box = BoxUnion(bnodes[bnodes[n].child1].box,
                                                bnodes[bnodes[n].child2].box)
            /\ \A m \in Subtree(n) :
                IsLeaf(bnodes[m]) =>
                    Contains(bnodes[n].box,
                             ObjectBoundingBox(PrimOf(bnodes[m].obj)))

\* a built tree whose root is internal, over two leaves with different boxes
\* neither of which is the root's
C16_Witness ==
    /\ bstate = "built"
    /\ ~IsLeaf(bnodes[1])
    /\ IsLeaf(bnodes[bnodes[1].child1]) /\ IsLeaf(bnodes[bnodes[1].child2])
    /\ ~SameExtent(bnodes[1].box, bnodes[bnodes[1].child1].box)
    /\ ~SameExtent(bnodes[1].box, bnodes[bnodes[1].child2].box)

\* C17: construction terminates for every n >= 1 and for the empty range:
\* Build never recurses on an empty sub-range and always returns.
C17_BuildTerminates ==
    /\ bstate # "overflow"
    /\ \A k \in DOMAIN bstack : bstack[k].first < bstack[k].last

\* C18: at an internal node child2 is skipped only when child1's hit is
\* nearer than anything in child2: whenever the test on child2's box skips
\* child2, child2's own result is not nearer than child1's.
C18_PruningConservative ==
    (bstate = "queried" /\ ~IsLeaf(bnodes[1])) =>
        LET inter_child1 == BVHIntersect(bnodes[1].child1, bray)
            inter_aabb_child2 ==
                AABBIntersect(bnodes[bnodes[1].child2].box, bray)
            inter_child2 == BVHIntersect(bnodes[1].child2, bray)
        IN  OperatorLess(inter_child1[1], inter_aabb_child2)
                => ~OperatorLess(inter_child2[1], inter_child1[1])

\* C30: ObjectVector::Intersect returns a consistent pair: when the
\* intersection is present, the object returned with it is the one the
\* intersection refers to, ties in distance included.
C30_VectorPairConsistent ==
    (bstate = "queried" /\ lhit[1].exists) => lhit[1].obj = lhit[2]

-----------------------------------------------------------------------------
(* Scene::Render (scene.cpp): the rows of the image are handed one at a     *)
(* time (schedule(dynamic, 1)) to the worker threads; each thread runs the  *)
(* loop body of its row pixel by pixel.  A thread's steps are its accesses  *)
(* to shared state: the schedule, engine_, image_, and the critical         *)
(* section around computed_pixels.                                          *)

\* number of worker threads of the parallel region
NumThreads == 2
\* largest image height and width (Camera::Height, Camera::Width)
MaxHeight == 2
MaxWidth == 2
\* largest nb_samples
MaxSamples == 2

Threads == 1..NumThreads

Height == rcfg.height
Width == rcfg.width

\* the index of image_ written for pixel (i, j), channel c (0, 1, 2), with the
\* row off by one
MutSlotIndex(i, j, c) == (Height - i) * Width + j + c * Width * Height

\* the index of image_ written for pixel (i, j), channel c (0, 1, 2)
SlotIndex(i, j, c) == (Height - i - 1) * Width + j + c * Width * Height

\* Scene::Scene: image_.assign(3 * Height * Width, 0)
ImageSlots == 0..(3 * Height * Width - 1)

Idle == [pc |-> "fetch", i |-> 0, j |-> 0, k |-> 0, todo |-> 0, tmp |-> 0]

RenderParked ==
    /\ rcfg = [height |-> 0, width |-> 0, samples |-> 0, aa |-> FALSE,
               progress |-> FALSE]
    /\ nextRow = 0
    /\ thr = <<>>
    /\ image = <<>>
    /\ oob = FALSE
    /\ computed_pixels = 0
    /\ shown = <<>>
    /\ lock = 0
    /\ engine = "seeded"
    /\ drawing = {}
    /\ scene = [camera |-> <<0, 0>>, objects |-> 0, lights |-> 0,
                 gamma |-> 22, distrib |-> <<0, 1>>]
    /\ rstate = "parked"

\* Scene::Scene and the entry of Render(nb_recursions, nb_samples,
\* anti_aliasing, progress_bar)
RenderInit ==
    /\ \E h \in 1..MaxHeight, w \in 1..MaxWidth, n \in 0..MaxSamples,
          a \in BOOLEAN, p \in BOOLEAN :
        /\ rcfg = [height |-> h, width |-> w, samples |-> n, aa |-> a,
                   progress |-> p]
        /\ image = [x \in 0..(3 * h * w - 1) |-> <<>>]
        /\ scene = [camera |-> <<h, w>>, objects |-> 1, lights |-> 1,
                     gamma |-> 22, distrib |-> <<0, 1>>]
    /\ nextRow = 0
    /\ thr = [t \in Threads |-> Idle]
    /\ oob = FALSE
    /\ computed_pixels = 0
    /\ shown = <<>>
    /\ lock = 0
    /\ engine = "seeded"
    /\ drawing = {}
    /\ rstate = "running"

\* the head of the loop body for pixel (i, j): GetColor with nb_samples, or
\* the first of nb_samples jittered rays (two draws, then GetColor with 1),
\* or nothing before the store
StartPixel(me, i, j) ==
    IF ~rcfg.aa
    THEN [me EXCEPT !.pc = "color", !.i = i, !.j = j, !.k = 0, !.todo = 0]
    ELSE IF rcfg.samples # 0
    THEN [me EXCEPT !.pc = "jitter", !.i = i, !.j = j, !.k = 0, !.todo = 2]
    ELSE [me EXCEPT !.pc = "write", !.i = i, !.j = j, !.k = 0, !.todo = 0]

\* the thread's record once its pixel (i, j) is finished: on to j + 1, or to
\* the schedule for another row
NextPixel(me) ==
    IF me.j + 1 < Width
    THEN StartPixel(me, me.i, me.j + 1)
    ELSE [me EXCEPT !.pc = "fetch", !.k = 0, !.todo = 0]

\* omp parallel for schedule(dynamic, 1): the thread takes the next row and
\* starts its first pixel, or leaves the loop when no row is left
FetchRow(t) ==
    /\ rstate = "running"
    /\ thr[t].pc = "fetch"
    /\ IF nextRow < Height
       THEN /\ thr' = [thr EXCEPT ![t] = StartPixel(@, nextRow, 0)]
            /\ nextRow' = nextRow + 1
       ELSE /\ thr' = [thr EXCEPT ![t] = [@ EXCEPT !.pc = "done"]]
            /\ UNCHANGED nextRow
    /\ UNCHANGED <<rcfg, scene, image, oob, computed_pixels, shown, lock,
                   engine, drawing, rstate>>
    /\ UNCHANGED notRender

\* distrib_(engine_) inside GetColor whatever nb_samples is
MutDrawBegin(t) ==
    /\ rstate = "running"
    /\ \/ thr[t].pc = "jitter"
       \/ thr[t].pc = "color"
    /\ t \notin drawing
    /\ drawing' = drawing \cup {t}
    /\ engine' = IF drawing # {} THEN "raced"
                 ELSE IF engine = "seeded" THEN "advanced"
                 ELSE engine
    /\ UNCHANGED <<rcfg, scene, nextRow, thr, image, oob, computed_pixels,
                   shown, lock, rstate>>
    /\ UNCHANGED notRender

\* distrib_(engine_) begins, for the jitter or inside GetColor (which draws
\* only in its loops over nb_samples): the thread starts reading and
\* advancing engine_; nothing keeps another thread out
DrawBegin(t) ==
    /\ rstate = "running"
    /\ \/ thr[t].pc = "jitter"
       \/ thr[t].pc = "color" /\ rcfg.samples # 0
    /\ t \notin drawing
    /\ drawing' = drawing \cup {t}
    /\ engine' = IF drawing # {} THEN "raced"
                 ELSE IF engine = "seeded" THEN "advanced"
                 ELSE engine
    /\ UNCHANGED <<rcfg, scene, nextRow, thr, image, oob, computed_pixels,
                   shown, lock, rstate>>
    /\ UNCHANGED notRender

\* distrib_(engine_) returns: after x comes y, after y the GetColor of the
\* jittered ray; inside GetColor the evaluation goes on
DrawEnd(t) ==
    /\ rstate = "running"
    /\ t \in drawing
    /\ drawing' = drawing \ {t}
    /\ thr' = [thr EXCEPT ![t] =
                IF thr[t].pc = "jitter"
                THEN IF thr[t].todo > 1
                     THEN [@ EXCEPT !.todo = @ - 1]
                     ELSE [@ EXCEPT !.todo = 0, !.pc = "color"]
                ELSE @]
    /\ UNCHANGED <<rcfg, scene, nextRow, image, oob, computed_pixels, shown,
                   lock, engine, rstate>>
    /\ UNCHANGED notRender

\* GetColor returns: the next jittered ray of the pixel (k++), or the pixel is
\* ready to be stored
ColorDone(t) ==
    /\ rstate = "running"
    /\ thr[t].pc = "color"
    /\ t \notin drawing
    /\ thr' = [thr EXCEPT ![t] =
                IF rcfg.aa /\ thr[t].k + 1 < rcfg.samples
                THEN [@ EXCEPT !.k = @ + 1, !.todo = 2, !.pc = "jitter"]
                ELSE [@ EXCEPT !.pc = "write"]]
    /\ UNCHANGED <<rcfg, scene, nextRow, image, oob, computed_pixels, shown,
                   lock, engine, drawing, rstate>>
    /\ UNCHANGED notRender

\* image_.at(index) = ... for the three channels of pixel (i, j); at() throws
\* on an index outside the vector
WritePixel(t) ==
    /\ rstate = "running"
    /\ thr[t].pc = "write"
    /\ LET me == thr[t]
           Written(x) == {c \in 0..2 : SlotIndex(me.i, me.j, c) = x}
       IN  /\ oob' = (oob \/ \E c \in 0..2 :
                                SlotIndex(me.i, me.j, c) \notin ImageSlots)
           /\ image' = [x \in ImageSlots |->
                IF Written(x) # {}
                THEN Append(image[x],
                            <<me.i, me.j, CHOOSE c \in Written(x) : TRUE>>)
                ELSE image[x]]
           /\ thr' = [thr EXCEPT ![t] =
                IF rcfg.progress THEN [me EXCEPT !.pc = "enter"]
                ELSE NextPixel(me)]
    /\ UNCHANGED <<rcfg, scene, nextRow, computed_pixels, shown, lock, engine,
                   drawing, rstate>>
    /\ UNCHANGED notRender

\* entering the critical section with no regard for who is inside
MutEnterCritical(t) ==
    /\ rstate = "running"
    /\ thr[t].pc = "enter"
    /\ lock' = t
    /\ thr' = [thr EXCEPT ![t] =
                [@ EXCEPT !.pc = "leave", !.tmp = computed_pixels]]
    /\ UNCHANGED <<rcfg, scene, nextRow, image, oob, computed_pixels, shown,
                   engine, drawing, rstate>>
    /\ UNCHANGED notRender

\* omp critical: the thread enters once no thread is inside, and reads
\* computed_pixels for the increment
EnterCritical(t) ==
    /\ rstate = "running"
    /\ thr[t].pc = "enter"
    /\ lock = 0
    /\ lock' = t
    /\ thr' = [thr EXCEPT ![t] =
                [@ EXCEPT !.pc = "leave", !.tmp = computed_pixels]]
    /\ UNCHANGED <<rcfg, scene, nextRow, image, oob, computed_pixels, shown,
                   engine, drawing, rstate>>
    /\ UNCHANGED notRender

\* computed_pixels++ is stored, show_progress(computed_pixels / (H * W)) is
\* called with the new value, and the thread leaves the critical section
LeaveCritical(t) ==
    /\ rstate = "running"
    /\ thr[t].pc = "leave"
    /\ computed_pixels' = thr[t].tmp + 1
    /\ shown' = Append(shown, <<thr[t].tmp + 1, Height * Width>>)
    /\ lock' = 0
    /\ thr' = [thr EXCEPT ![t] = NextPixel([@ EXCEPT !.tmp = 0])]
    /\ UNCHANGED <<rcfg, scene, nextRow, image, oob, engine, drawing, rstate>>
    /\ UNCHANGED notRender

\* the end of the parallel region: every thread has left the loop
RenderReturn ==
    /\ rstate = "running"
    /\ \A t \in Threads : thr[t].pc = "done"
    /\ rstate' = "returned"
    /\ UNCHANGED <<rcfg, scene, nextRow, thr, image, oob, computed_pixels,
                   shown, lock, engine, drawing>>
    /\ UNCHANGED notRender

RenderNext ==
    \/ \E t \in Threads : FetchRow(t)
    \/ \E t \in Threads : DrawBegin(t)
    \/ \E t \in Threads : DrawEnd(t)
    \/ \E t \in Threads : ColorDone(t)
    \/ \E t \in Threads : WritePixel(t)
    \/ \E t \in Threads : EnterCritical(t)
    \/ \E t \in Threads : LeaveCritical(t)
    \/ RenderReturn

-----------------------------------------------------------------------------
(* Claims about Render, under SpecRender                                    *)

\* the pixels whose three slots have been stored
Stored == {x \in 0..(Height * Width - 1) : image[x] # <<>>}

\* the threads that stored a pixel and have not yet counted it
Uncounted == {t \in Threads : thr[t].pc \in {"enter", "leave"}}

\* C8: pixel (i, j), 0 <= i < H, 0 <= j < W, writes the slots
\* (H-1-i)*W + j + c*W*H, c in 0..2; the indices are inside the buffer, no slot
\* is written twice (so never by two threads), and when Render returns every
\* slot has been written exactly once.
C8_PixelSlots ==
    rstate \in {"running", "returned"} =>
        /\ ~oob
        /\ \A x \in ImageSlots :
            /\ Len(image[x]) <= 1
            /\ \A n \in DOMAIN image[x] :
                LET w == image[x][n]
                IN  /\ w[1] \in 0..(Height - 1)
                    /\ w[2] \in 0..(Width - 1)
                    /\ w[3] \in 0..2
                    /\ x = (Height - 1 - w[1]) * Width + w[2]
                            + w[3] * Width * Height
        /\ \A t \in Uncounted :
            \A c \in 0..2 :
                image[(Height - 1 - thr[t].i) * Width + thr[t].j
                        + c * Width * Height]
                    = <<(<<thr[t].i, thr[t].j, c>>)>>
        /\ rstate = "returned" =>
            \A x \in ImageSlots : Len(image[x]) = 1

\* two threads have each stored a pixel of a row of their own in a 2 x 2
\* image, and neither has moved on
C8_Witness ==
    /\ rstate = "running"
    /\ Height = 2
    /\ Width = 2
    /\ \E t \in Uncounted, u \in Uncounted :
        /\ thr[t].i # thr[u].i
        /\ thr[t].j = 1
        /\ image[SlotIndex(thr[t].i, 1, 2)] # <<>>
        /\ image[SlotIndex(thr[u].i, thr[u].j, 0)] # <<>>

\* C9: with the progress flag set, under every interleaving the counter is
\* incremented exactly once per completed pixel with no lost update: the
\* values shown are k/(H*W) for k = 1, 2, ... in increasing order, and the
\* counter is H*W when Render returns.
C9_ProgressCounter ==
    (rstate \in {"running", "returned"} /\ rcfg.progress) =>
        /\ shown = [k \in 1..Len(shown) |-> <<k, Height * Width>>]
        /\ computed_pixels = Len(shown)
        /\ computed_pixels + Cardinality(Uncounted) = Cardinality(Stored)
        /\ rstate = "returned" => computed_pixels = Height * Width

\* one thread is inside the critical section, after an earlier increment,
\* while another waits to enter
C9_Witness ==
    /\ rcfg.progress
    /\ rstate = "running"
    /\ computed_pixels >= 1
    /\ \E t \in Threads, u \in Threads :
        /\ lock = t
        /\ thr[t].pc = "leave"
        /\ thr[u].pc = "enter"

\* C10: accesses to the shared engine are mutually excluded: no two threads
\* are ever drawing from it at the same time.
C10_EngineExclusive == Cardinality(drawing) <= 1

\* C15, as stated: during Render nothing of the Scene but the image buffer is
\* written: neither the data members nor the random engine change.
C15_OnlyImageWritten == [][scene' = scene /\ engine' = engine]_vars

\* C15, amended: during Render the camera, the object container, the lights,
\* gamma and the distribution are never written; engine_ is left as seeded
\* when nb_samples = 0, and has been written by the time Render returns when
\* anti-aliasing draws its jitter.
C15_OnlyImageAndEngineWritten ==
    /\ [][scene' = scene]_vars
    /\ [](rcfg.samples = 0 => engine = "seeded")
    /\ []((rstate = "returned" /\ rcfg.aa /\ rcfg.samples # 0) =>
            engine # "seeded")

\* C15, its case: Render has returned with every slot of the image written
\* and with engine_ advanced by the draws of the workers
C15_Witness ==
    /\ rstate = "returned"
    /\ engine = "advanced"
    /\ \A x \in ImageSlots : image[x] # <<>>
    /\ scene.camera = <<MaxHeight, MaxWidth>>

-----------------------------------------------------------------------------
(* Sphere::Intersect on its own: a sphere and a ray are drawn, the          *)
(* intersection is taken.                                                   *)

\* largest radius, and largest coordinate of a ray origin
MaxRadius == 2
MaxOrigin == 2

\* the unit directions along the axes
AxisDirections ==
    {<<1, 0, 0>>, <<0 - 1, 0, 0>>, <<0, 1, 0>>, <<0, 0 - 1, 0>>,
     <<0, 0, 1>>, <<0, 0, 0 - 1>>}

\* dot_prod and delta of Sphere::Intersect
SphereDotProd(sp, ray) == Dot(ray.d, VSub(ray.o, sp.c))
SphereDelta(sp, ray) ==
    4 * (SphereDotProd(sp, ray) * SphereDotProd(sp, ray)
            - NormSquared(VSub(sp.c, ray.o)) + sp.r * sp.r)

\* the spheres and rays drawn: spheres at the origin, the sphere of a default
\* Object among them, rays from the points of a plane through it, those for
\* which sqrt(delta) is an integer
SphereQueries ==
    {q \in [sphere : {Sphere(r, ZeroVector) : r \in 1..MaxRadius}
                        \cup {DefaultObject},
            ray : {Ray(<<x, y, 0>>, d) :
                        x \in (0 - MaxOrigin)..MaxOrigin,
                        y \in (0 - MaxOrigin)..MaxOrigin,
                        d \in AxisDirections}] :
        \/ SphereDelta(q.sphere, q.ray) < 0
        \/ \E k \in 0..SphereDelta(q.sphere, q.ray) :
                k * k = SphereDelta(q.sphere, q.ray)}

SphereParked ==
    /\ ssphere = Sphere(1, ZeroVector)
    /\ sray = Ray(ZeroVector, ZeroVector)
    /\ shit = Intersection1(NoRef)
    /\ sop = "parked"

SphereInit ==
    /\ \E q \in SphereQueries :
        /\ ssphere = q.sphere
        /\ sray = q.ray
    /\ shit = Intersection1(NoRef)
    /\ sop = "none"

\* shit = ssphere.Intersect(sray)
SphereHit ==
    /\ sop = "none"
    /\ shit' = SphereIntersect(ssphere, sray, 1)
    /\ sop' = "hit"
    /\ UNCHANGED <<ssphere, sray>>
    /\ UNCHANGED notSphere

SphereNext == SphereHit

-----------------------------------------------------------------------------
(* Claims about Sphere::Intersect, under SpecSphere                         *)

\* C14: for a ray tangent to the sphere (delta = 0), with b the dot product
\* of the direction and origin - center: when -b > 0 the result is one present
\* intersection at t = -b with the front-facing flag true; when -b <= 0 it is
\* empty.
C14_TangentRay ==
    (sop = "hit" /\ SphereDelta(ssphere, sray) = 0) =>
        IF 0 - SphereDotProd(ssphere, sray) > 0
        THEN /\ shit.exists
             /\ shit.t = 0 - SphereDotProd(ssphere, sray)
             /\ shit.out
        ELSE ~shit.exists

\* a tangent ray that touches the sphere ahead of its origin
C14_Witness ==
    /\ sop = "hit"
    /\ SphereDelta(ssphere, sray) = 0
    /\ SphereDotProd(ssphere, sray) < 0
    /\ shit.exists
    /\ shit.t >= 1

\* C27: the sphere of a default-constructed Object reports no intersection,
\* whatever the ray.
C27_DefaultObjectInvisible ==
    (sop = "hit" /\ ssphere = DefaultObject) => IsEmpty(shit)

-----------------------------------------------------------------------------
(* The Fresnel coefficient of GetTransmissionReflexionColor (scene.cpp),    *)
(* in exact rational arithmetic: dot_prod is a multiple of 1 / CosUnit and  *)
(* the refractive indices are positive integers.                            *)

\* dot_prod ranges over the multiples of 1 / CosUnit in [-1, 1]
CosUnit == 4
\* largest refractive index
MaxIndex == 3

Power5(x) == x * x * x * x * x

\* coef_reflection with c = 1 - dot_prod
MutSchlick(dot_prod, n_in, n_out) ==
    LET k0num == (n_in - n_out) * (n_in - n_out)
        k0den == (n_in + n_out) * (n_in + n_out)
        c == CosUnit - dot_prod
    IN  <<k0num * Power5(CosUnit) + (k0den - k0num) * Power5(c),
          k0den * Power5(CosUnit)>>

\* k0 = (n_in - n_out)^2 / (n_in + n_out)^2, c = 1 + dot_prod,
\* coef_reflection = k0 + (1 - k0) * c^5, as <<numerator, denominator>> over
\* the common denominator (n_in + n_out)^2 * CosUnit^5
Schlick(dot_prod, n_in, n_out) ==
    LET k0num == (n_in - n_out) * (n_in - n_out)
        k0den == (n_in + n_out) * (n_in + n_out)
        c == CosUnit + dot_prod
    IN  <<k0num * Power5(CosUnit) + (k0den - k0num) * Power5(c),
          k0den * Power5(CosUnit)>>

FresnelParked ==
    /\ fin = [cos |-> 0, n_in |-> 1, n_out |-> 1]
    /\ fcoef = <<0, 1>>
    /\ fop = "parked"

FresnelInit ==
    /\ fin \in [cos : (0 - CosUnit)..CosUnit, n_in : 1..MaxIndex,
                n_out : 1..MaxIndex]
    /\ fcoef = <<0, 1>>
    /\ fop = "none"

\* the Fresnel block of GetTransmissionReflexionColor, for a refracted ray
FresnelCompute ==
    /\ fop = "none"
    /\ fcoef' = Schlick(fin.cos, fin.n_in, fin.n_out)
    /\ fop' = "computed"
    /\ UNCHANGED fin
    /\ UNCHANGED notFresnel

FresnelNext == FresnelCompute

-----------------------------------------------------------------------------
(* Claims about the Fresnel coefficient, under SpecFresnel                  *)

\* C13 as stated: P_R = k0 + (1 - k0) * (1 + cos_i)^5 lies in [0, 1] for all
\* cos_i in [-1, 1] and all n_in, n_out > 0.
C13_FresnelInUnitInterval ==
    fop = "computed" => (0 <= fcoef[1] /\ fcoef[1] <= fcoef[2])

\* C13, amended: P_R lies in [0, 1] for all cos_i in [-1, 0] and all
\* n_in, n_out > 0; for every cos_i in (0, 1] it is greater than 1.
C13_FresnelNonPositiveCos ==
    fop = "computed" =>
        /\ fcoef[2] > 0
        /\ fin.cos <= 0 => (0 <= fcoef[1] /\ fcoef[1] <= fcoef[2])
        /\ fin.cos > 0 => fcoef[1] > fcoef[2]

\* a coefficient strictly between 0 and 1, for a ray that meets the normal at
\* an angle and two different indices
C13_Witness ==
    /\ fop = "computed"
    /\ fin.cos < 0 /\ fin.cos > 0 - CosUnit
    /\ fin.n_in # fin.n_out
    /\ 0 < fcoef[1] /\ fcoef[1] < fcoef[2]

-----------------------------------------------------------------------------
(* One pixel of Render and the recursive evaluator behind it (scene.cpp):  *)
(* GetColor with its helpers GetBRDFColor, GetTransmissionReflexionColor    *)
(* and LightIntensity.  Each GetColor call is a frame of cstack; the        *)
(* helpers run inside the frame of the GetColor that called them.  Colours  *)
(* are "zero" for (0,0,0) and "any" for a value the scene decides; the      *)
(* intensity is in millionths, the material fractions in hundredths.        *)

\* largest nb_recursions and largest nb_samples of a Render call
MaxRecursions == 2
MaxRays == 2
\* largest number of lights in the scene
MaxLights == 1

\* intensity 1 and the threshold 0.01, in millionths
UnitIntensity == 1000000
LowIntensity == 10000

\* the materials hit: (opacity, fraction_diffuse_brdf) in hundredths: direct
\* light only, indirect diffusion only, transparent, and a mix of the three
Materials == {<<100, 0>>, <<100, 50>>, <<0, 0>>, <<50, 1>>}

\* material.SpecularCoefficient(): none, or the default
SpecularCoefficients == {0, 30}

\* coef_reflection in tenths: refracted only, a mix, reflected only
Coefficients == {0, 5, 10}

\* a nested call at the depth of its caller
MutDecrement(d) == d

\* nb_recursions - 1 on unsigned int; a value below 0 stands for the wrapped
\* value 2^32 + d
Decrement(d) == d - 1

\* opacity and fraction_diffuse_brdf dictated by the material alone
MutEffective(nb_recursions, nb_samples, mat) ==
    IF nb_recursions = 0 THEN <<100, 0>> ELSE mat

\* GetColor: opacity and fraction_diffuse_brdf, forced to 1 and 0 at the end
\* of the recursion or without samples
Effective(nb_recursions, nb_samples, mat) ==
    IF nb_recursions = 0 \/ nb_samples = 0 THEN <<100, 0>> ELSE mat

\* fraction_diffusion = opacity * f / (1 - opacity * (1 - f)) against 0.999
\* and 0.001, the fractions in hundredths
DiffusionClass(o, f) ==
    LET num == o * f
        den == 10000 - 100 * o + o * f
    IN  IF 1000 * num >= 999 * den THEN "brdf"
        ELSE IF 1000 * num <= den THEN "tr"
        ELSE "sample"

\* LightIntensity with an ambient term added
MutLightIntensity(o, f, specular_coefficient, lights) ==
    [shadow |-> lights, lit |-> "any"]

\* LightIntensity: the shadow rays launched and the colour returned
LightIntensity(o, f, specular_coefficient, lights) ==
    IF o * (100 - f) = 0 /\ specular_coefficient = 0
    THEN [shadow |-> 0, lit |-> "zero"]
    ELSE [shadow |-> lights, lit |-> IF lights = 0 THEN "zero" ELSE "any"]

\* the sum of two colours, and a colour scaled by a factor
Plus(a, b) == IF a = "zero" /\ b = "zero" THEN "zero" ELSE "any"
Scaled(factor, a) == IF factor = 0 THEN "zero" ELSE a

\* a GetColor call about to start
Frame(nb_recursions, nb_samples, intensity) ==
    [D |-> nb_recursions, N |-> nb_samples, w |-> intensity, pc |-> "enter",
     hit |-> FALSE, o |-> 100, f |-> 0, i |-> 0, loop |-> FALSE,
     sn |-> 0, sw |-> 0, si |-> 0, coef |-> 10,
     acc |-> "zero", kids |-> FALSE, draws |-> FALSE,
     calls |-> 0, passed |-> {}]

NoCall ==
    [valid |-> FALSE, D |-> 0, N |-> 0, w |-> 0, depth |-> 0, hit |-> FALSE,
     o |-> 100, f |-> 0, kids |-> FALSE, draws |-> FALSE, shadow |-> 0,
     direct |-> <<>>, indirect |-> "zero", color |-> "zero",
     phit |-> FALSE, calls |-> 0, passed |-> {}]

ColorParked ==
    /\ ccfg = [dmax |-> 0, samples |-> 0, aa |-> FALSE, prims |-> FALSE,
               lights |-> 0]
    /\ cstack = <<>>
    /\ cret = NoCall
    /\ ck = 0
    /\ cacc = "zero"
    /\ cpixel = <<>>
    /\ cprimary = <<>>
    /\ ccalls = 0
    /\ cstate = "parked"

\* a scene and the arguments of Render, at the head of the loop body
ColorInit ==
    /\ ccfg \in [dmax : 0..MaxRecursions, samples : 0..MaxRays,
                 aa : BOOLEAN, prims : BOOLEAN, lights : 0..MaxLights]
    /\ cstack = <<>>
    /\ cret = NoCall
    /\ ck = 0
    /\ cacc = "zero"
    /\ cpixel = <<>>
    /\ cprimary = <<>>
    /\ ccalls = 0
    /\ cstate = "start"

CTop == cstack[Len(cstack)]
CSetTop(frame) == [cstack EXCEPT ![Len(cstack)] = frame]

\* the deepest chain of GetColor calls followed
MaxColorDepth == MaxRecursions + 2

\* GetColor, first test: nothing hit
MutEarlyReturn(hit, intensity) == ~hit

\* GetColor, first test: nothing hit, or too small a contribution
EarlyReturn(hit, intensity) == ~hit \/ intensity < LowIntensity

\* a GetColor call made by the frame on top, once that frame is `parent`
CCall(parent, nb_recursions, nb_samples, intensity) ==
    LET caller == [parent EXCEPT !.calls = @ + 1,
                                 !.passed = @ \cup {nb_samples}]
    IN  /\ ccalls' = ccalls + 1
        /\ IF Len(cstack) >= MaxColorDepth
           THEN /\ cstack' = CSetTop(caller)
                /\ cstate' = "overflow"
           ELSE /\ cstack' = Append(CSetTop(caller),
                                    Frame(nb_recursions, nb_samples,
                                          intensity))
                /\ cstate' = cstate

\* the GetColor call on top returns `color` to its caller
CReturn(frame, shadow, direct, indirect, color) ==
    LET rest == SubSeq(cstack, 1, Len(cstack) - 1)
    IN  /\ cret' = [valid |-> TRUE, D |-> frame.D, N |-> frame.N,
                    w |-> frame.w, depth |-> Len(cstack), hit |-> frame.hit,
                    o |-> frame.o, f |-> frame.f, kids |-> frame.kids,
                    draws |-> frame.draws, shadow |-> shadow,
                    direct |-> direct, indirect |-> indirect,
                    color |-> color, calls |-> frame.calls,
                    passed |-> frame.passed,
                    phit |-> IF rest = <<>> THEN cret.phit \/ frame.hit
                             ELSE cret.phit]
        /\ IF rest = <<>>
           THEN /\ cstack' = <<>>
                /\ cacc' = Plus(cacc, color)
                /\ cstate' = IF ccfg.aa THEN "jitter" ELSE "done"
           ELSE /\ cstack' = [rest EXCEPT ![Len(rest)].acc = Plus(@, color)]
                /\ UNCHANGED <<cacc, cstate>>

\* Render, one pixel: the single ray, or the head of the jitter loop
PixelStart ==
    /\ cstate = "start"
    /\ IF ccfg.aa
       THEN /\ cstate' = "jitter"
            /\ UNCHANGED <<cstack, cprimary, ccalls>>
       ELSE /\ cstate' = "running"
            /\ cstack' = <<Frame(ccfg.dmax, ccfg.samples, UnitIntensity)>>
            /\ cprimary' = <<[at |-> "centre", N |-> ccfg.samples]>>
            /\ ccalls' = 1
    /\ UNCHANGED <<ccfg, cret, ck, cacc, cpixel>>
    /\ UNCHANGED notColor

\* Render, one jittered ray evaluated with nb_samples
MutPixelJitter ==
    /\ cstate = "jitter"
    /\ ccfg.samples # 0
    /\ ck < ccfg.samples
    /\ ck' = ck + 1
    /\ cstack' = <<Frame(ccfg.dmax, ccfg.samples, UnitIntensity)>>
    /\ cprimary' = Append(cprimary, [at |-> "jitter", N |-> ccfg.samples])
    /\ ccalls' = 1
    /\ cstate' = "running"
    /\ UNCHANGED <<ccfg, cret, cacc, cpixel>>
    /\ UNCHANGED notColor

\* Render, one jittered ray: two draws and GetColor(r, nb_recursions, 1)
PixelJitter ==
    /\ cstate = "jitter"
    /\ ccfg.samples # 0
    /\ ck < ccfg.samples
    /\ ck' = ck + 1
    /\ cstack' = <<Frame(ccfg.dmax, 1, UnitIntensity)>>
    /\ cprimary' = Append(cprimary, [at |-> "jitter", N |-> 1])
    /\ ccalls' = 1
    /\ cstate' = "running"
    /\ UNCHANGED <<ccfg, cret, cacc, cpixel>>
    /\ UNCHANGED notColor

\* Render, gamma correction and image storage of the pixel
PixelStore ==
    /\ \/ cstate = "done"
       \/ cstate = "jitter" /\ (ccfg.samples = 0 \/ ck >= ccfg.samples)
    /\ \E bytes \in [1..3 -> {0, 255}] :
          cpixel' = IF cacc = "zero" THEN <<0, 0, 0>> ELSE bytes
    /\ cstate' = "stored"
    /\ UNCHANGED <<ccfg, cstack, cret, ck, cacc, cprimary, ccalls>>
    /\ UNCHANGED notColor

\* GetColor, entry: the intersection, the early return, the effective
\* opacity and diffuse fraction, and the branch taken for indirect light
ColorEnter ==
    /\ cstate = "running"
    /\ cstack # <<>>
    /\ CTop.pc = "enter"
    /\ \E hit \in (IF ccfg.prims THEN BOOLEAN ELSE {FALSE}),
          mat \in Materials :
          LET top == [CTop EXCEPT !.hit = hit]
              eff == Effective(top.D, top.N, mat)
              o == eff[1]
              f == eff[2]
              class == DiffusionClass(o, f)
          IN  IF EarlyReturn(hit, top.w)
              THEN /\ CReturn(top, 0, <<>>, "zero", "zero")
                   /\ UNCHANGED <<ccfg, ck, cpixel, cprimary, ccalls>>
              ELSE /\ cstack' = CSetTop(
                        [top EXCEPT !.o = o, !.f = f,
                           !.pc = IF o = 100 /\ f = 0 THEN "light"
                                  ELSE IF class = "sample" THEN "sample"
                                  ELSE class,
                           !.sn = top.N,
                           !.sw = IF class = "brdf"
                                  THEN (o * f * (top.w \div 100)) \div 100
                                  ELSE ((100 - o) * (top.w \div 100))])
                   /\ UNCHANGED <<ccfg, cret, ck, cacc, cpixel, cprimary,
                                  ccalls, cstate>>
    /\ UNCHANGED notColor

\* GetColor, the loop over nb_samples that draws which helper gets one ray
ColorSample ==
    /\ cstate = "running"
    /\ cstack # <<>>
    /\ CTop.pc = "sample"
    /\ IF CTop.i < CTop.N
       THEN \E diffuse \in BOOLEAN :
               cstack' = CSetTop(
                   [CTop EXCEPT !.i = @ + 1, !.draws = TRUE, !.loop = TRUE,
                      !.sn = 1, !.si = 0,
                      !.pc = IF diffuse THEN "brdf" ELSE "tr",
                      !.sw = IF diffuse
                             THEN (CTop.o * CTop.f * (CTop.w \div 100)) \div 100
                             ELSE ((100 - CTop.o) * (CTop.w \div 100))])
       ELSE cstack' = CSetTop([CTop EXCEPT !.pc = "light"])
    /\ UNCHANGED <<ccfg, cret, ck, cacc, cpixel, cprimary, ccalls, cstate>>
    /\ UNCHANGED notColor

\* where a helper returns to: the sampling loop of GetColor, or its end
After(frame) == IF frame.loop THEN "sample" ELSE "light"

\* GetBRDFColor handing its nb_samples on to every ray
MutBRDFStep ==
    /\ cstate = "running"
    /\ cstack # <<>>
    /\ CTop.pc = "brdf"
    /\ IF CTop.si < CTop.sn
       THEN CCall([CTop EXCEPT !.si = @ + 1, !.draws = TRUE, !.kids = TRUE],
                  Decrement(CTop.D), CTop.sn, CTop.sw)
       ELSE /\ cstack' = CSetTop([CTop EXCEPT !.pc = After(CTop)])
            /\ UNCHANGED <<cstate, ccalls>>
    /\ UNCHANGED <<ccfg, cret, ck, cacc, cpixel, cprimary>>
    /\ UNCHANGED notColor

\* GetBRDFColor: per sample two draws and GetColor(ray, nb_recursions-1, 1)
BRDFStep ==
    /\ cstate = "running"
    /\ cstack # <<>>
    /\ CTop.pc = "brdf"
    /\ IF CTop.si < CTop.sn
       THEN CCall([CTop EXCEPT !.si = @ + 1, !.draws = TRUE, !.kids = TRUE],
                  Decrement(CTop.D), 1, CTop.sw)
       ELSE /\ cstack' = CSetTop([CTop EXCEPT !.pc = After(CTop)])
            /\ UNCHANGED <<cstate, ccalls>>
    /\ UNCHANGED <<ccfg, cret, ck, cacc, cpixel, cprimary>>
    /\ UNCHANGED notColor

\* GetTransmissionReflexionColor: coef_reflection, then the reflected ray
\* alone, the refracted ray alone, or the loop that draws between them
TRChoose ==
    /\ cstate = "running"
    /\ cstack # <<>>
    /\ CTop.pc = "tr"
    /\ \E coef \in Coefficients :
          IF coef = 10 \/ coef = 0
          THEN CCall([CTop EXCEPT !.coef = coef, !.kids = TRUE,
                                  !.pc = After(CTop)],
                     Decrement(CTop.D), CTop.sn, CTop.sw)
          ELSE /\ cstack' = CSetTop([CTop EXCEPT !.coef = coef, !.si = 0,
                                                 !.pc = "trloop"])
               /\ UNCHANGED <<cstate, ccalls>>
    /\ UNCHANGED <<ccfg, cret, ck, cacc, cpixel, cprimary>>
    /\ UNCHANGED notColor

\* GetTransmissionReflexionColor, the loop: a draw per sample, and
\* GetColor(ray, nb_recursions-1, 1) on the reflected or the refracted ray
TRSample ==
    /\ cstate = "running"
    /\ cstack # <<>>
    /\ CTop.pc = "trloop"
    /\ IF CTop.si < CTop.sn
       THEN \E reflected \in BOOLEAN :
               CCall([CTop EXCEPT !.si = @ + 1, !.draws = TRUE,
                                  !.kids = TRUE],
                     Decrement(CTop.D), 1,
                     IF reflected
                     THEN (CTop.coef * CTop.sw) \div 10
                     ELSE ((10 - CTop.coef) * CTop.sw) \div 10)
       ELSE /\ cstack' = CSetTop([CTop EXCEPT !.pc = After(CTop)])
            /\ UNCHANGED <<cstate, ccalls>>
    /\ UNCHANGED <<ccfg, cret, ck, cacc, cpixel, cprimary>>
    /\ UNCHANGED notColor

\* GetColor, the end: the indirect light scaled, plus LightIntensity
ColorLight ==
    /\ cstate = "running"
    /\ cstack # <<>>
    /\ CTop.pc = "light"
    /\ \E specular_coefficient \in SpecularCoefficients :
          LET light == LightIntensity(CTop.o, CTop.f, specular_coefficient,
                                      ccfg.lights)
              indirect == Scaled(10000 - CTop.o * (100 - CTop.f), CTop.acc)
          IN  CReturn(CTop, light.shadow, <<CTop.o, CTop.f>>, indirect,
                      Plus(indirect, light.lit))
    /\ UNCHANGED <<ccfg, ck, cpixel, cprimary, ccalls>>
    /\ UNCHANGED notColor

ColorNext ==
    \/ PixelStart
    \/ PixelJitter
    \/ PixelStore
    \/ ColorEnter
    \/ ColorSample
    \/ BRDFStep
    \/ TRChoose
    \/ TRSample
    \/ ColorLight

-----------------------------------------------------------------------------
(* Claims about GetColor, checked under SpecColor and SpecColorLive.       *)

\* the frames of cstack, outermost first, count down by one from
\* nb_recursions, and none is called from a frame at depth 0
ChainCountsDown ==
    \A k \in DOMAIN cstack :
        /\ cstack[k].D >= 0
        /\ k > 1 => /\ cstack[k - 1].D >= 1
                    /\ cstack[k].D = cstack[k - 1].D - 1

\* C11: every GetColor evaluation that Render starts returns, no chain of
\* nested GetColor calls is longer than nb_recursions + 1, a nested call has
\* depth D - 1 and is only made from a call with D >= 1, so the unsigned
\* depth never wraps below 0.
C11_RecursionBounded ==
    /\ [](/\ cstate # "overflow"
          /\ Len(cstack) <= ccfg.dmax + 1
          /\ ChainCountsDown)
    /\ (cstate = "running" ~> cstate \in {"jitter", "done", "stored"})

\* C11, its case: a chain of nb_recursions + 1 calls, the innermost at depth 0
C11_Witness ==
    /\ ccfg.dmax = MaxRecursions
    /\ Len(cstack) = MaxRecursions + 1
    /\ cstack[Len(cstack)].D = 0
    /\ cstack[Len(cstack)].pc = "light"

\* C12: with no primitive or no light Render still completes the pixel, for
\* every nb_recursions, nb_samples and anti-aliasing setting; a pixel whose
\* primary rays hit nothing is stored as (0,0,0), and with no light every
\* pixel is stored as (0,0,0).
C12_EmptySceneBlack ==
    /\ [](cstate = "stored" =>
            /\ ~cret.phit => cpixel = <<0, 0, 0>>
            /\ ccfg.lights = 0 => cpixel = <<0, 0, 0>>)
    /\ [](~ccfg.prims => ~cret.phit)
    /\ (cstate = "start" ~> cstate = "stored")

\* C12, its case: a pixel stored in a scene without lights after a primary
\* ray hit a primitive and secondary rays were launched
C12_Witness ==
    /\ cstate = "stored"
    /\ ccfg.lights = 0
    /\ ccfg.prims
    /\ cret.phit
    /\ cret.kids
    /\ cpixel = <<0, 0, 0>>

C26_PrimaryRays ==
    cstate = "stored" =>
        IF ~ccfg.aa
        THEN cprimary = <<[at |-> "centre", N |-> ccfg.samples]>>
        ELSE IF ccfg.samples > 0
        THEN /\ Len(cprimary) = ccfg.samples
             /\ \A k \in DOMAIN cprimary :
                    cprimary[k] = [at |-> "jitter", N |-> 1]
        ELSE /\ cprimary = <<>>
             /\ ~cret.valid
             /\ cpixel = <<0, 0, 0>>

\* C26, its case: a pixel stored after the largest number of jittered rays
C26_Witness ==
    /\ cstate = "stored"
    /\ ccfg.aa
    /\ ccfg.samples = MaxRays
    /\ Len(cprimary) = MaxRays
    /\ cret.phit

\* the sample count of the primary rays of the pixel
PrimarySamples == IF ccfg.aa THEN 1 ELSE ccfg.samples

\* C28: a ray is split into nb_samples rays at most once along a path: a
\* GetColor call with nb_samples > 1 makes one nested call that still
\* carries nb_samples, or nested calls that all carry 1; a call with
\* nb_samples = 1 makes at most one nested call; so a primary ray causes at
\* most nb_samples * (nb_recursions + 1) GetColor calls (one when
\* nb_samples = 0).
C28_SplitOnce ==
    /\ cret.valid =>
        /\ cret.N > 1 => \/ cret.calls = 1 /\ cret.passed = {cret.N}
                         \/ cret.passed \subseteq {1}
        /\ cret.N = 1 => cret.calls <= 1
        /\ cret.calls <= cret.N
    /\ ccalls <= IF PrimarySamples = 0 THEN 1
                 ELSE PrimarySamples * (ccfg.dmax + 1)

\* C28, its case: a call with the largest nb_samples that split into as many
\* nested calls, each of which went on to a nested call of its own
C28_Witness ==
    /\ cret.valid
    /\ cret.N = MaxRays
    /\ cret.calls = MaxRays
    /\ cret.passed = {1}
    /\ cret.D = MaxRecursions
    /\ ccalls = 1 + MaxRays * MaxRecursions

-----------------------------------------------------------------------------
(* The two helpers of GetColor on their own (scene.cpp): GetBRDFColor and  *)
(* GetTransmissionReflexionColor are called with drawn arguments and the    *)
(* GetColor calls they make are recorded: the ray's origin and direction,   *)
(* nb_samples, the ambient index and the intensity passed.  dot_prod is a   *)
(* multiple of 1 / CosUnit, at most 0 since the normal handed in faces the  *)
(* incoming ray; indices are positive integers; the intensity is in         *)
(* quarters; positions along the incoming ray are in units of 10^-8.        *)

\* largest inter.Distance()
MaxHit == 2

\* the units of the ray parameter in 1, and in 1.0001 and 0.9999
ParamUnit == 100000000
PerTenThousand == 10000

\* Ray::operator(): origin_ + (t * 0.9999) * direction_, as the parameter
\* reached, t being given in ten-thousandths
RayAt(t) == t * 9999

\* intersection_point of GetColor, r(inter.Distance())
IntersectionPoint(distance) == RayAt(distance * PerTenThousand)

\* the origin of a refracted ray, r(inter.Distance() * 1.0001)
RefractedOrigin(distance) == RayAt(distance * 10001)

\* n_in and n_out: the ambient index and the material's, swapped for a hit
\* from inside
Indices(index, refractive_index, is_out) ==
    IF is_out THEN <<index, refractive_index>>
    ELSE <<refractive_index, index>>

\* the new ambient index, the material's for every hit from outside
MutNewIndex(index, refractive_index, is_out, is_flat) ==
    IF is_out THEN refractive_index ELSE index

\* new_index: the material's when the ray enters a flat object
NewIndex(index, refractive_index, is_out, is_flat) ==
    IF is_out /\ is_flat THEN refractive_index ELSE index

\* is_ray_refracted: the material refracts and
\* 1 - (n_in / n_out)^2 * (1 - dot_prod^2) > 0
IsRayRefracted(refraction, dot_prod, n_in, n_out) ==
    /\ refraction
    /\ n_out * n_out * CosUnit * CosUnit
         - n_in * n_in * (CosUnit * CosUnit - dot_prod * dot_prod) > 0

\* coef_reflection from the Fresnel formula whether refracted or not
MutReflectionCoefficient(is_ray_refracted, dot_prod, n_in, n_out) ==
    Schlick(dot_prod, n_in, n_out)

\* coef_reflection: 1 without refraction, else the Fresnel approximation
ReflectionCoefficient(is_ray_refracted, dot_prod, n_in, n_out) ==
    IF ~is_ray_refracted THEN <<1, 1>>
    ELSE Schlick(dot_prod, n_in, n_out)

\* coef_reflection >= 0.999, coef_reflection <= 0.001
AtLeast999(coef) == 1000 * coef[1] >= 999 * coef[2]
AtMost001(coef) == 1000 * coef[1] <= coef[2]

\* a product of fractions, and 1 - a fraction
Times(a, b) == <<a[1] * b[1], a[2] * b[2]>>
OneMinus(a) == <<a[2] - a[1], a[2]>>

\* a GetColor call: Ray{origin, direction}, nb_samples, index, intensity,
\* and whether the draw before it was at most coef_reflection
Kid(direction, origin, nb_samples, index, intensity, below) ==
    [direction |-> direction, origin |-> origin, N |-> nb_samples,
     index |-> index, w |-> intensity, below |-> below]

\* the direction of the refracted ray: computed, or left at its default
RefractedDirection == IF tset.refracted THEN "refracted" ELSE "zero"

HelperParked ==
    /\ tin = [helper |-> "brdf", N |-> 1, index |-> 1, w |-> <<4, 4>>,
              distance |-> 1, dot_prod |-> 0, refractive_index |-> 1,
              refraction |-> FALSE, is_out |-> FALSE, is_flat |-> FALSE]
    /\ tset = [refracted |-> FALSE, new_index |-> 1, coef |-> <<1, 1>>]
    /\ tkids = <<>>
    /\ ti = 0
    /\ tdiv = 0
    /\ tpc = "parked"

\* the arguments GetColor hands to a helper: nb_samples is at least 1
HelperInit ==
    /\ tin \in [helper : {"brdf", "tr"}, N : 1..MaxRays, index : 1..MaxIndex,
                w : {<<4, 4>>, <<1, 4>>}, distance : 1..MaxHit,
                dot_prod : (0 - CosUnit)..0,
                refractive_index : 1..MaxIndex, refraction : BOOLEAN,
                is_out : BOOLEAN, is_flat : BOOLEAN]
    /\ tin.helper = "brdf" =>
          /\ tin.dot_prod = 0
          /\ tin.refractive_index = 1
          /\ ~tin.refraction
          /\ ~tin.is_out
          /\ ~tin.is_flat
    /\ tset = [refracted |-> FALSE, new_index |-> tin.index,
               coef |-> <<1, 1>>]
    /\ tkids = <<>>
    /\ ti = 0
    /\ tdiv = 0
    /\ tpc = "start"

\* GetBRDFColor: per sample a random ray from intersection_point with
\* nb_samples 1, the index and the intensity received; then the division by
\* nb_samples * PI
BRDFLoop ==
    /\ tpc = "start"
    /\ tin.helper = "brdf"
    /\ IF ti < tin.N
       THEN /\ tkids' = Append(tkids,
                   Kid("random", IntersectionPoint(tin.distance), 1,
                       tin.index, tin.w, TRUE))
            /\ ti' = ti + 1
            /\ UNCHANGED <<tdiv, tpc>>
       ELSE /\ tdiv' = tin.N
            /\ tpc' = "returned"
            /\ UNCHANGED <<tkids, ti>>
    /\ UNCHANGED <<tin, tset>>
    /\ UNCHANGED notHelper

\* GetTransmissionReflexionColor up to its loop: the refraction, the
\* Fresnel coefficient, and the single reflected or refracted ray when the
\* coefficient is at an end of [0, 1]
TRStart ==
    /\ tpc = "start"
    /\ tin.helper = "tr"
    /\ LET n == Indices(tin.index, tin.refractive_index, tin.is_out)
           is_ray_refracted ==
               IsRayRefracted(tin.refraction, tin.dot_prod, n[1], n[2])
           coef == ReflectionCoefficient(is_ray_refracted, tin.dot_prod,
                                         n[1], n[2])
           new_index == NewIndex(tin.index, tin.refractive_index,
                                 tin.is_out, tin.is_flat)
       IN  /\ tset' = [refracted |-> is_ray_refracted,
                       new_index |-> new_index, coef |-> coef]
           /\ IF AtLeast999(coef)
              THEN /\ tkids' = <<Kid("reflected",
                                     IntersectionPoint(tin.distance),
                                     tin.N, tin.index, tin.w, TRUE)>>
                   /\ tpc' = "returned"
              ELSE IF AtMost001(coef)
              THEN /\ tkids' = <<Kid(IF is_ray_refracted THEN "refracted"
                                     ELSE "zero",
                                     RefractedOrigin(tin.distance),
                                     tin.N, new_index, tin.w, FALSE)>>
                   /\ tpc' = "returned"
              ELSE /\ tkids' = <<>>
                   /\ tpc' = "loop"
    /\ UNCHANGED <<tin, ti, tdiv>>
    /\ UNCHANGED notHelper

\* GetTransmissionReflexionColor, its loop handing nb_samples on to every ray
MutTRLoop ==
    /\ tpc = "loop"
    /\ IF ti < tin.N
       THEN /\ \E below \in BOOLEAN :
                 tkids' = Append(tkids,
                     IF below
                     THEN Kid("reflected", IntersectionPoint(tin.distance),
                              tin.N, tin.index, Times(tset.coef, tin.w),
                              TRUE)
                     ELSE Kid(RefractedDirection,
                              RefractedOrigin(tin.distance), tin.N,
                              tset.new_index,
                              Times(OneMinus(tset.coef), tin.w), FALSE))
            /\ ti' = ti + 1
            /\ UNCHANGED <<tdiv, tpc>>
       ELSE /\ tdiv' = IF tin.N # 0 THEN tin.N ELSE 0
            /\ tpc' = "returned"
            /\ UNCHANGED <<tkids, ti>>
    /\ UNCHANGED <<tin, tset>>
    /\ UNCHANGED notHelper

\* GetTransmissionReflexionColor, its loop: a draw p per sample, the
\* reflected ray when p <= coef_reflection and the refracted ray otherwise,
\* and the division by nb_samples at the end
TRLoop ==
    /\ tpc = "loop"
    /\ IF ti < tin.N
       THEN /\ \E below \in BOOLEAN :
                 tkids' = Append(tkids,
                     IF below
                     THEN Kid("reflected", IntersectionPoint(tin.distance),
                              1, tin.index, Times(tset.coef, tin.w), TRUE)
                     ELSE Kid(RefractedDirection,
                              RefractedOrigin(tin.distance), 1,
                              tset.new_index,
                              Times(OneMinus(tset.coef), tin.w), FALSE))
            /\ ti' = ti + 1
            /\ UNCHANGED <<tdiv, tpc>>
       ELSE /\ tdiv' = IF tin.N # 0 THEN tin.N ELSE 0
            /\ tpc' = "returned"
            /\ UNCHANGED <<tkids, ti>>
    /\ UNCHANGED <<tin, tset>>
    /\ UNCHANGED notHelper

HelperNext ==
    \/ BRDFLoop
    \/ TRStart
    \/ TRLoop

-----------------------------------------------------------------------------
(* Claims about the helpers, under SpecHelper                               *)

\* the surface hit, as a parameter along the incoming ray
Surface == tin.distance * ParamUnit

\* C23: the origin of a refracted ray, r(t * 1.0001) with the shrink of the
\* Ray evaluator applied, lies strictly beyond the surface hit (parameter
\* greater than t), and the origin of a reflected ray, r(t), strictly
\* before it.
C23_OriginsAroundSurface ==
    tin.helper = "tr" =>
        \A k \in DOMAIN tkids :
            IF tkids[k].direction = "reflected"
            THEN tkids[k].origin < Surface
            ELSE tkids[k].origin > Surface

\* C24: the ambient index passed to a nested GetColor is the material's
\* index on a refracted ray entering a flat object (a hit from outside), and
\* the index received on every other ray: reflected, random, refracted
\* through an object that is not flat, or refracted at a hit from inside.
C24_IndexChangesOnFlatEntry ==
    \A k \in DOMAIN tkids :
        tkids[k].index =
            IF /\ tkids[k].direction = "refracted"
               /\ tin.is_out
               /\ tin.is_flat
            THEN tin.refractive_index
            ELSE tin.index

\* C24, its case: a refracted ray into a flat object of another index
C24_Witness ==
    /\ tpc = "returned"
    /\ tin.is_out
    /\ tin.is_flat
    /\ tin.refractive_index # tin.index
    /\ \E k \in DOMAIN tkids :
          /\ tkids[k].direction = "refracted"
          /\ tkids[k].index = tin.refractive_index
    /\ \E k \in DOMAIN tkids :
          /\ tkids[k].direction = "reflected"
          /\ tkids[k].index = tin.index

\* C25: without a refraction direction coef_reflection is 1; at 0.999 or
\* more one ray is traced, reflected, with nb_samples and the intensity
\* unchanged; at 0.001 or less one ray, refracted, likewise; otherwise
\* nb_samples rays with nb_samples 1, reflected with coef_reflection times
\* the intensity when the draw is at most coef_reflection, refracted with
\* (1 - coef_reflection) times the intensity otherwise, the sum divided by
\* nb_samples.
C25_BranchStructure ==
    (tpc = "returned" /\ tin.helper = "tr") =>
        /\ ~tset.refracted => tset.coef = <<1, 1>>
        /\ IF AtLeast999(tset.coef) \/ AtMost001(tset.coef)
           THEN /\ Len(tkids) = 1
                /\ tkids[1].direction =
                      IF AtLeast999(tset.coef) THEN "reflected"
                      ELSE "refracted"
                /\ tkids[1].N = tin.N
                /\ tkids[1].w = tin.w
                /\ tdiv = 0
           ELSE /\ Len(tkids) = tin.N
                /\ \A k \in DOMAIN tkids :
                      /\ tkids[k].N = 1
                      /\ tkids[k].direction =
                            IF tkids[k].below THEN "reflected"
                            ELSE "refracted"
                      /\ tkids[k].w =
                            IF tkids[k].below THEN Times(tset.coef, tin.w)
                            ELSE Times(OneMinus(tset.coef), tin.w)
                /\ tdiv = tin.N

\* C25, its case: the largest nb_samples, rays drawn on both sides
C25_Witness ==
    /\ tpc = "returned"
    /\ tin.helper = "tr"
    /\ tin.N = MaxRays
    /\ Len(tkids) = MaxRays
    /\ tkids[1].below
    /\ ~tkids[2].below
    /\ tdiv = MaxRays

\* C29: a ray is launched along the refracted direction only when that
\* direction was computed (the material refracts and
\* 1 - rho^2 * (1 - cos_i^2) > 0); the zero vector it holds otherwise is
\* never a ray direction, whatever coef_reflection and the draws.
C29_RefractedOnlyWhenComputed ==
    \A k \in DOMAIN tkids :
        /\ tkids[k].direction # "zero"
        /\ tkids[k].direction = "refracted" =>
              /\ tset.refracted
              /\ tin.refraction

\* C29, its case: total internal reflection in a refractive material
C29_Witness ==
    /\ tpc = "returned"
    /\ tin.helper = "tr"
    /\ tin.refraction
    /\ ~tset.refracted
    /\ tin.dot_prod < 0
    /\ Len(tkids) = 1
    /\ tkids[1].direction = "reflected"

-----------------------------------------------------------------------------
(* Scene::LightIntensity on its own (scene.cpp): the early return, then    *)
(* per light the shadow ray and the diffuse and specular terms.  Fractions  *)
(* are in hundredths.                                                       *)

\* material.FractionSpecular(): none, or the default 1
SpecularFractions == {0, 100}

\* opacity * (1 - fraction_diffuse_brdf) == 0
\* && material.SpecularCoefficient() == 0
LightEarly(opacity, fraction_diffuse_brdf, material) ==
    /\ opacity * (100 - fraction_diffuse_brdf) = 0
    /\ material.specular_coefficient = 0

\* the terms added for one light: none when an object is in between, else
\* the diffuse term, and the specular term when FractionSpecular() != 0
LightTerms(visible, material) ==
    IF ~visible THEN {}
    ELSE IF material.fraction_specular # 0 THEN {"diffuse", "specular"}
    ELSE {"diffuse"}

LightParked ==
    /\ lin = [opacity |-> 100, fraction_diffuse_brdf |-> 0,
              material |-> [fraction_specular |-> 0,
                            specular_coefficient |-> 0],
              visible |-> <<>>]
    /\ lterms = <<>>
    /\ learly = FALSE
    /\ lpc = "parked"

LightInit ==
    /\ \E o \in {0, 50, 100}, f \in {0, 50, 100},
          ks \in SpecularFractions, sc \in SpecularCoefficients,
          v \in UNION {[1..n -> BOOLEAN] : n \in 0..MaxLights} :
          lin = [opacity |-> o, fraction_diffuse_brdf |-> f,
                 material |-> [fraction_specular |-> ks,
                               specular_coefficient |-> sc],
                 visible |-> v]
    /\ lterms = <<>>
    /\ learly = FALSE
    /\ lpc = "start"

\* LightIntensity, its first test
LightEnter ==
    /\ lpc = "start"
    /\ IF LightEarly(lin.opacity, lin.fraction_diffuse_brdf, lin.material)
       THEN /\ learly' = TRUE
            /\ lpc' = "returned"
       ELSE /\ learly' = FALSE
            /\ lpc' = "loop"
    /\ UNCHANGED <<lin, lterms>>
    /\ UNCHANGED notLight

\* LightIntensity, its loop: the next light, or the return of final_color
LightLoop ==
    /\ lpc = "loop"
    /\ IF Len(lterms) < Len(lin.visible)
       THEN /\ lterms' = Append(lterms,
                   LightTerms(lin.visible[Len(lterms) + 1], lin.material))
            /\ UNCHANGED lpc
       ELSE /\ lpc' = "returned"
            /\ UNCHANGED lterms
    /\ UNCHANGED <<lin, learly>>
    /\ UNCHANGED notLight

LightNext ==
    \/ LightEnter
    \/ LightLoop

-----------------------------------------------------------------------------
(* Claims about LightIntensity, under SpecLight                             *)

\* C22: LightIntensity returns early exactly when
\* opacity * (1 - fraction_diffuse_brdf) = 0 and the material's specular
\* weight is 0; with a positive specular weight, whatever the exponent, the
\* specular term of every visible light is added, and it is added for a
\* visible light iff the weight is not 0.
C22_EarlyReturnOnSpecularWeight ==
    lpc = "returned" =>
        /\ learly <=>
              /\ lin.opacity * (100 - lin.fraction_diffuse_brdf) = 0
              /\ lin.material.fraction_specular = 0
        /\ lin.material.fraction_specular # 0 =>
              \A k \in DOMAIN lin.visible :
                  lin.visible[k] =>
                      /\ k \in DOMAIN lterms
                      /\ "specular" \in lterms[k]
        /\ \A k \in DOMAIN lterms :
              "specular" \in lterms[k] <=>
                  lin.visible[k] /\ lin.material.fraction_specular # 0

-----------------------------------------------------------------------------
(* fraction_diffusion of GetColor (scene.cpp) in floating point.  A double  *)
(* is modelled by a binary floating-point number with MantissaBits          *)
(* significant bits, rounded to nearest with ties to even as IEEE-754 does; *)
(* a value is held as its numerator over a power of two.                    *)

\* significant bits of the format, and the power of two the inputs are
\* numerators over
MantissaBits == 3
ScaleBits == 5

\* 1.0 as a numerator over 2^ScaleBits, and over the square of it
One == 2 ^ ScaleBits
OneSquared == One * One

\* the position of the leading bit of n > 0
LeadingBit(n) == CHOOSE k \in 0..30 : 2 ^ k <= n /\ n < 2 ^ (k + 1)

\* the nearest number with MantissaBits significant bits, ties to even
RoundToNearest(n) ==
    IF n < 2 ^ MantissaBits THEN n
    ELSE LET spacing == 2 ^ (LeadingBit(n) - MantissaBits + 1)
             q == n \div spacing
             r == n % spacing
         IN  IF 2 * r < spacing THEN q * spacing
             ELSE IF 2 * r > spacing THEN (q + 1) * spacing
             ELSE IF q % 2 = 0 THEN q * spacing
             ELSE (q + 1) * spacing

\* the numbers of the format in [0, 1]
Doubles == {n \in 0..One : RoundToNearest(n) = n}

\* 1 - opacity * (1 - fraction_diffuse_brdf), each operation rounded; the
\* result is a numerator over 2^(2 * ScaleBits)
Denominator(opacity, fraction_diffuse_brdf) ==
    LET one_minus == RoundToNearest(One - fraction_diffuse_brdf)
        product == RoundToNearest(opacity * one_minus)
    IN  RoundToNearest(OneSquared - product)

DiffusionParked ==
    /\ din = [opacity |-> One, fraction_diffuse_brdf |-> 0]
    /\ dden = 0
    /\ dpc = "parked"

DiffusionInit ==
    /\ din \in [opacity : Doubles, fraction_diffuse_brdf : Doubles]
    /\ dden = 0
    /\ dpc = "start"

\* GetColor: if (opacity != 1 || fraction_diffuse_brdf != 0), the quotient
\* fraction_diffusion is computed
DiffusionFraction ==
    /\ dpc = "start"
    /\ IF din.opacity # One \/ din.fraction_diffuse_brdf # 0
       THEN /\ dden' = Denominator(din.opacity, din.fraction_diffuse_brdf)
            /\ dpc' = "computed"
       ELSE /\ dden' = dden
            /\ dpc' = "skipped"
    /\ UNCHANGED din
    /\ UNCHANGED notDiffusion

DiffusionNext == DiffusionFraction

-----------------------------------------------------------------------------
(* Claims about fraction_diffusion, under SpecDiffusion                     *)

\* C21: the quotient opacity * fraction_diffuse_brdf
\* / (1 - opacity * (1 - fraction_diffuse_brdf)) is never computed with a
\* denominator of 0: for opacity and fraction_diffuse_brdf in [0, 1] the
\* denominator is 0 only for opacity 1 and fraction 0, where the block is
\* skipped.
C21_DenominatorNotZero == dpc = "computed" => dden # 0

-----------------------------------------------------------------------------
(* The specifications: each part runs from its own initial states, with    *)
(* the other parts parked.                                                  *)

InitInter ==
    /\ InterInit
    /\ BoxParked
    /\ BvhParked
    /\ RenderParked
    /\ SphereParked
    /\ FresnelParked
    /\ ColorParked
    /\ HelperParked
    /\ LightParked
    /\ DiffusionParked
SpecInter == InitInter /\ [][InterNext]_vars

InitBox ==
    /\ InterParked
    /\ BoxInit
    /\ BvhParked
    /\ RenderParked
    /\ SphereParked
    /\ FresnelParked
    /\ ColorParked
    /\ HelperParked
    /\ LightParked
    /\ DiffusionParked
SpecBox == InitBox /\ [][BoxNext]_vars

InitBvh ==
    /\ InterParked
    /\ BoxParked
    /\ BvhInit
    /\ RenderParked
    /\ SphereParked
    /\ FresnelParked
    /\ ColorParked
    /\ HelperParked
    /\ LightParked
    /\ DiffusionParked
SpecBvh == InitBvh /\ [][BvhNext]_vars

InitRender ==
    /\ InterParked
    /\ BoxParked
    /\ BvhParked
    /\ RenderInit
    /\ SphereParked
    /\ FresnelParked
    /\ ColorParked
    /\ HelperParked
    /\ LightParked
    /\ DiffusionParked
SpecRender == InitRender /\ [][RenderNext]_vars

InitSphere ==
    /\ InterParked
    /\ BoxParked
    /\ BvhParked
    /\ RenderParked
    /\ SphereInit
    /\ FresnelParked
    /\ ColorParked
    /\ HelperParked
    /\ LightParked
    /\ DiffusionParked
SpecSphere == InitSphere /\ [][SphereNext]_vars

InitFresnel ==
    /\ InterParked
    /\ BoxParked
    /\ BvhParked
    /\ RenderParked
    /\ SphereParked
    /\ FresnelInit
    /\ ColorParked
    /\ HelperParked
    /\ LightParked
    /\ DiffusionParked
SpecFresnel == InitFresnel /\ [][FresnelNext]_vars

InitColor ==
    /\ InterParked
    /\ BoxParked
    /\ BvhParked
    /\ RenderParked
    /\ SphereParked
    /\ FresnelParked
    /\ ColorInit
    /\ HelperParked
    /\ LightParked
    /\ DiffusionParked
SpecColor == InitColor /\ [][ColorNext]_vars

InitHelper ==
    /\ InterParked
    /\ BoxParked
    /\ BvhParked
    /\ RenderParked
    /\ SphereParked
    /\ FresnelParked
    /\ ColorParked
    /\ HelperInit
    /\ LightParked
    /\ DiffusionParked
SpecHelper == InitHelper /\ [][HelperNext]_vars

InitLight ==
    /\ InterParked
    /\ BoxParked
    /\ BvhParked
    /\ RenderParked
    /\ SphereParked
    /\ FresnelParked
    /\ ColorParked
    /\ HelperParked
    /\ LightInit
    /\ DiffusionParked
SpecLight == InitLight /\ [][LightNext]_vars

InitDiffusion ==
    /\ InterParked
    /\ BoxParked
    /\ BvhParked
    /\ RenderParked
    /\ SphereParked
    /\ FresnelParked
    /\ ColorParked
    /\ HelperParked
    /\ LightParked
    /\ DiffusionInit
SpecDiffusion == InitDiffusion /\ [][DiffusionNext]_vars

\* GetColor under the scheduling of a running thread: a step that can be
\* taken is taken
SpecColorLive == SpecColor /\ WF_vars(ColorNext)

=============================================================================
